---------------------------- MODULE Spec2Model ----------------------------
(***************************************************************************)
(* Model of confetti-todo's server (src/server.py): the energy and         *)
(* regeneration engine (request handlers + background tick) and the        *)
(* outline parser / serializer.                                            *)
(*                                                                         *)
(* Time is the wall clock in seconds; the clock advances in steps of       *)
(* TimeStep.  The calendar date is a day number that rolls over at         *)
(* Midnight.  Python None is NoTime / NoDate / NoFriction / NoId, and the  *)
(* empty text for an optional string.                                      *)
(***************************************************************************)
EXTENDS Integers, Sequences, FiniteSets, TLC

VARIABLES
    now,             \* datetime.now(), seconds
    today,           \* date.today(), day number
    energy_storage,  \* session id -> EnergyState (a dict: lazily populated)
    tick_pending,    \* session whose tick is suspended in broadcast, or "none"
    response,        \* output of the last step: what the handler returned,
                     \* raised and broadcast (NoResponse after a silent step)
    request,         \* input of the last step: the request the handler served
    regen_log,       \* per session: wall-clock bookkeeping of the tick's increments
    todo_file,       \* TODO_FILE: whether it exists, and its content
    backups,         \* BACKUP_DIR: the timestamps that name its files
    parsed,          \* what the last GET /api/todos returned or raised, and the
                     \* text it read (NotParsed after any other step)
    saved,           \* the sections last written by POST /api/todos and where
                     \* the client had them from (NotSaved after a hand edit)
    xp,              \* the last application of calculate_xp: task and result
    quick_win        \* what the last GET /api/quick-win returned

outline_vars == <<todo_file, backups, parsed, saved, xp, quick_win>>
energy_vars == <<now, today, energy_storage, tick_pending, regen_log>>
vars == <<energy_vars, response, request, outline_vars>>

-----------------------------------------------------------------------------
(* Bounds of the model *)
TimeStep == 450          \* the clock moves in steps of this many seconds
MaxTime == 1350          \* the clock stops here
MaxDay == 1              \* number of midnights that may pass
MaxTimeLive == 2700      \* where the clock stops in the liveness specification
MaxTimeBreak == 3600     \* where the clock stops in the specification of breaks
MaxTimeSessions == 900   \* where the clock stops in the specification of two sessions
MaxTimeTicks == 2250     \* where the clock stops in the specification of repeated ticks

(* Program constants *)
MAX_ENERGY == 12
REGENERATION_INTERVAL == 15 * 60
REGENERATION_AMOUNT == 1
NoTime == -1
NoDate == -1

SessionIds == {"default"}

Min(a, b) == IF a <= b THEN a ELSE b
Max(a, b) == IF a >= b THEN a ELSE b

\* Python's int(a / b) for b > 0: truncation toward zero
TruncDiv(a, b) == IF a >= 0 THEN a \div b ELSE -((-a) \div b)


-----------------------------------------------------------------------------
(* calculate_energy_cost: effort tokens are character sequences *)

Digits == <<"0", "1", "2", "3", "4", "5", "6", "7", "8", "9">>
IsDigit(c) == \E i \in 1..10 : Digits[i] = c
DigitVal(c) == (CHOOSE i \in 1..10 : Digits[i] = c) - 1

AllDigits(s) == \A i \in 1..Len(s) : IsDigit(s[i])

\* int("123")
RECURSIVE IntOf(_)
IntOf(s) == IF s = <<>> THEN 0
            ELSE 10 * IntOf(SubSeq(s, 1, Len(s) - 1)) + DigitVal(s[Len(s)])

\* effort[:-1] and effort[-1]
ButLast(s) == SubSeq(s, 1, Len(s) - 1)
LastChar(s) == s[Len(s)]

\* int(effort[:-1]) succeeds on a non-empty run of digits
IntParses(s) == s # <<>> /\ AllDigits(s)

\* minutes of an effort token, as lines 171-178 compute it
EffortUnitOk(effort) == effort # <<>> /\ LastChar(effort) \in {"m", "h", "d"}
EffortMinutes(effort) ==
    IF LastChar(effort) = "m" THEN IntOf(ButLast(effort))
    ELSE IF LastChar(effort) = "h" THEN IntOf(ButLast(effort)) * 60
    ELSE IntOf(ButLast(effort)) * 8 * 60

\* (a variant without the cap at 12)
calculate_energy_cost_uncapped(md) ==
    IF ~md.given \/ md.effort = <<>> \/ ~md.has_friction
        THEN [ok |-> FALSE, cost |-> 0]
    ELSE IF ~EffortUnitOk(md.effort) \/ ~IntParses(ButLast(md.effort))
        THEN [ok |-> FALSE, cost |-> 0]
    ELSE [ok |-> TRUE,
          cost |-> Max(1, Max(1, EffortMinutes(md.effort) \div 30)
                          + (md.friction - 2))]

\* The result of calculate_energy_cost: ok = FALSE models the ValueError
calculate_energy_cost(md) ==
    IF ~md.given \/ md.effort = <<>> \/ ~md.has_friction
        THEN [ok |-> FALSE, cost |-> 0]
    ELSE IF ~EffortUnitOk(md.effort) \/ ~IntParses(ButLast(md.effort))
        THEN [ok |-> FALSE, cost |-> 0]
    ELSE LET minutes == EffortMinutes(md.effort)
             base_cost == Max(1, minutes \div 30)
         IN [ok |-> TRUE,
             cost |-> Min(12, Max(1, base_cost + (md.friction - 2)))]

-----------------------------------------------------------------------------
(* EnergyState and the daily reset *)

\* EnergyState(session_id=...) with the field defaults of lines 52-62
NewEnergyState ==
    [current_energy |-> 12,
     max_energy |-> MAX_ENERGY,
     is_on_break |-> FALSE,
     break_end_time |-> NoTime,
     last_reset_date |-> NoDate,
     last_regeneration_time |-> now,
     is_regenerating |-> TRUE,
     regeneration_paused_at |-> NoTime]

DailyReset_keeps_pause(st) ==
    [st EXCEPT !.current_energy = st.max_energy,
               !.is_on_break = FALSE,
               !.break_end_time = NoTime,
               !.last_reset_date = today,
               !.last_regeneration_time = now,
               !.is_regenerating = TRUE]

\* the daily reset of lines 118-125 applied to a state
DailyReset(st) ==
    [st EXCEPT !.current_energy = st.max_energy,
               !.is_on_break = FALSE,
               !.break_end_time = NoTime,
               !.last_reset_date = today,
               !.last_regeneration_time = now,
               !.is_regenerating = TRUE,
               !.regeneration_paused_at = NoTime]

NeedsReset(st) == st.last_reset_date # today

\* the state get_or_create_energy_state(session_id) returns
get_or_create_energy_state(s) ==
    LET st == IF s \in DOMAIN energy_storage THEN energy_storage[s]
              ELSE NewEnergyState
    IN IF NeedsReset(st) THEN DailyReset(st) ELSE st

\* one EnergyState shared by every session id
Store_shared(s, st) ==
    [x \in DOMAIN energy_storage \cup {s} |-> st]

\* energy_storage[s] = st (dict assignment / in-place mutation)
Store(s, st) ==
    [x \in DOMAIN energy_storage \cup {s} |->
        IF x = s THEN st ELSE energy_storage[x]]

\* (a variant that measures the elapsed time up to now during a pause too)
calculate_regeneration_state_running(st) ==
    IF st.is_on_break \/ st.current_energy >= st.max_energy \/ ~st.is_regenerating
        THEN [regeneration_time_remaining |-> 0, is_regenerating |-> FALSE]
    ELSE [regeneration_time_remaining |->
              Max(0, REGENERATION_INTERVAL - (now - st.last_regeneration_time)),
          is_regenerating |-> st.is_regenerating /\ st.regeneration_paused_at = NoTime]

\* calculate_regeneration_state(state)
calculate_regeneration_state(st) ==
    IF st.is_on_break \/ st.current_energy >= st.max_energy \/ ~st.is_regenerating
        THEN [regeneration_time_remaining |-> 0, is_regenerating |-> FALSE]
    ELSE LET elapsed == IF st.regeneration_paused_at # NoTime
                            THEN st.regeneration_paused_at - st.last_regeneration_time
                            ELSE now - st.last_regeneration_time
         IN [regeneration_time_remaining |-> Max(0, REGENERATION_INTERVAL - elapsed),
             is_regenerating |-> st.is_regenerating /\ st.regeneration_paused_at = NoTime]

-----------------------------------------------------------------------------
(* Bookkeeping for the timing claims: for each session, the wall-clock     *)
(* instant at which the current regeneration interval started (the last    *)
(* time last_regeneration_time was set to now) and the number of seconds   *)
(* of that interval spent paused (pause periods closed by a resume); and   *)
(* for the interval that the latest increment of the background task       *)
(* closed, its wall-clock length and the seconds of it spent paused; and   *)
(* the instant at which the running break started (NoTime off break); and  *)
(* whether the last increment brought the energy to max_energy, and when   *)
(* it was made (NoTime before the first); and, while a pause marker set    *)
(* today stands, the regeneration read as it was when the marker was set.  *)

NoPause == [remaining |-> NoTime, below_max |-> FALSE]
NoInterval == [elapsed |-> NoTime, paused |-> 0, gap |-> NoTime]
FirstLog ==
    [start |-> now, paused |-> 0, closed |-> NoInterval, break_start |-> NoTime,
     at_max |-> FALSE, incremented_at |-> NoTime, at_pause |-> NoPause]

\* a new interval starts now
Restart(l) == [l EXCEPT !.start = now, !.paused = 0, !.at_pause = NoPause]

\* the increment of the background task closes the interval and starts one
CloseInterval(l) ==
    [start |-> now, paused |-> 0,
     closed |-> [elapsed |-> now - l.start, paused |-> l.paused,
                 gap |-> IF l.incremented_at = NoTime THEN NoTime
                         ELSE now - l.incremented_at],
     break_start |-> l.break_start,
     at_max |-> l.at_max,
     incremented_at |-> now,
     at_pause |-> l.at_pause]

\* whether the increment of the background task brought the energy to max
Incremented(l, st) == [l EXCEPT !.at_max = (st.current_energy >= st.max_energy)]

\* the pause marker is set now, on state st / an effective resume clears it
MarkPause(l, st) ==
    [l EXCEPT !.at_pause =
        [remaining |-> calculate_regeneration_state(st).regeneration_time_remaining,
         below_max |-> st.current_energy < st.max_energy]]
ClearPause(l) == [l EXCEPT !.at_pause = NoPause]

\* a break starts now / the break is over
BeginBreak(l) == [l EXCEPT !.break_start = now]
EndBreak(l) == [l EXCEPT !.break_start = NoTime]

\* the log after get_or_create_energy_state(s): a creation or a daily reset
\* starts a new interval
LogAfterAccess(s) ==
    IF s \notin DOMAIN energy_storage THEN FirstLog
    ELSE IF NeedsReset(energy_storage[s]) THEN EndBreak(Restart(regen_log[s]))
    ELSE regen_log[s]

SetLog(s, l) ==
    [x \in DOMAIN regen_log \cup {s} |-> IF x = s THEN l ELSE regen_log[x]]

-----------------------------------------------------------------------------
(* Responses: op, HTTP status, error detail, the number the handler        *)
(* reports, and the event it broadcasts ("none" when it broadcasts none)   *)

Resp(op, sess, status, detail, value, event) ==
    [op |-> op, session |-> sess, status |-> status, detail |-> detail,
     value |-> value, event |-> event]

NoResponse == Resp("none", "none", 0, "", 0, "none")

(* Requests: the consume body (amount, task_metadata) or the break's       *)
(* duration_minutes query parameter                                        *)
\* task_metadata: sent = it is not None, given = it is a non-empty dict
NoMetadata == [sent |-> FALSE, given |-> FALSE, effort |-> <<>>, has_friction |-> FALSE, friction |-> 0]
\* "task_metadata": {}
EmptyMetadata == [NoMetadata EXCEPT !.sent = TRUE]
Metadata(effort, friction) ==
    [sent |-> TRUE, given |-> TRUE, effort |-> effort, has_friction |-> TRUE, friction |-> friction]

Req(amount, md, minutes) ==
    [amount |-> amount, task_metadata |-> md, duration_minutes |-> minutes]
NoRequest == Req(0, NoMetadata, 0)

-----------------------------------------------------------------------------
(* Request handlers *)

\* (a variant that leaves break_end_time behind)
BreakEnded_keeps_end(st) == [st EXCEPT !.is_on_break = FALSE]

\* lines 507-508 and 626-627: is_on_break = False, break_end_time = None
BreakEnded(st) == [st EXCEPT !.is_on_break = FALSE, !.break_end_time = NoTime]

\* GET /api/energy
get_energy(s) ==
    LET st == get_or_create_energy_state(s)
        expired == st.is_on_break /\ st.break_end_time # NoTime
                   /\ now >= st.break_end_time
        duration == st.break_end_time - now          \* seconds; / 60 in the code
        energy_restored == Min(st.max_energy - st.current_energy,
                               Max(1, TruncDiv(duration, 15 * 60)))
        st2 == BreakEnded([st EXCEPT !.current_energy =
                              Min(st.max_energy, st.current_energy + energy_restored)])
    IN /\ energy_storage' = Store(s, IF expired THEN st2 ELSE st)
       /\ regen_log' = SetLog(s, IF expired THEN EndBreak(LogAfterAccess(s))
                                   ELSE LogAfterAccess(s))
       /\ response' = IF expired
                        THEN Resp("get_energy", s, 200, "", energy_restored,
                                  "energy_restored")
                        ELSE Resp("get_energy", s, 200, "", 0, "none")
       /\ request' = NoRequest
       /\ UNCHANGED <<now, today, tick_pending, outline_vars>>

RequestedCost_amount(amount, md) == amount

\* lines 531-533: the cost a consume request asks for
\* (`if request.task_metadata:`, md.given: a non-empty dict was sent)
RequestedCost(amount, md) ==
    IF md.given THEN calculate_energy_cost(md).cost ELSE amount

InsufficientEnergy_zero(st, energy_cost) == st.current_energy <= 0

\* line 535
InsufficientEnergy(st, energy_cost) == st.current_energy < energy_cost

\* (a variant that lets a consume through during a break)
BlockedByBreak_never(st) == FALSE

\* line 527: if state.is_on_break
BlockedByBreak(st) == st.is_on_break

\* POST /api/energy/consume
consume_energy(s, amount, md) ==
    LET st == get_or_create_energy_state(s)
        calc == calculate_energy_cost(md)
        metadata_truthy == md.given
        energy_cost == RequestedCost(amount, md)
        st2 == [st EXCEPT !.current_energy = st.current_energy - energy_cost]
    IN /\ regen_log' = SetLog(s, LogAfterAccess(s))
       /\ request' = Req(amount, md, 0)
       /\ UNCHANGED <<now, today, tick_pending, outline_vars>>
       /\ IF BlockedByBreak(st)
            THEN /\ energy_storage' = Store(s, st)
                 /\ response' = Resp("consume", s, 400,
                                     "Cannot consume energy while on break", 0, "none")
          ELSE IF metadata_truthy /\ ~calc.ok
            THEN \* ValueError from calculate_energy_cost escapes the handler
                 /\ energy_storage' = Store(s, st)
                 /\ response' = Resp("consume", s, 500, "ValueError", 0, "none")
          ELSE IF InsufficientEnergy(st, energy_cost)
            THEN /\ energy_storage' = Store(s, st)
                 /\ response' = Resp("consume", s, 400, "Insufficient energy", 0, "none")
          ELSE /\ energy_storage' = Store(s, st2)
               /\ response' = Resp("consume", s, 200, "", energy_cost, "energy_consumed")

ClampedDuration_asked(requested_minutes) == requested_minutes

\* line 575: max(5, min(60, duration_minutes))
ClampedDuration(requested_minutes) == Max(5, Min(60, requested_minutes))

\* (a variant that lets a break start at full energy)
AlreadyFull_never(st) == FALSE

\* line 568: if state.current_energy >= state.max_energy
AlreadyFull(st) == st.current_energy >= st.max_energy

\* POST /api/energy/break
start_break(s, requested_minutes) ==
    LET st == get_or_create_energy_state(s)
        duration_minutes == ClampedDuration(requested_minutes)
        break_end_time == now + duration_minutes * 60
        energy_to_restore == Min(st.max_energy - st.current_energy,
                                 Max(1, duration_minutes \div 15))
        st2 == [st EXCEPT !.is_on_break = TRUE,
                          !.break_end_time = break_end_time,
                          !.regeneration_paused_at =
                              IF st.is_regenerating /\ st.regeneration_paused_at = NoTime
                                  THEN now ELSE @]
    IN /\ request' = Req(0, NoMetadata, requested_minutes)
       /\ UNCHANGED <<now, today, tick_pending, outline_vars>>
       /\ IF AlreadyFull(st)
            THEN /\ energy_storage' = Store(s, st)
                 /\ regen_log' = SetLog(s, LogAfterAccess(s))
                 /\ response' = Resp("start_break", s, 400, "Energy is already full",
                                     0, "none")
          ELSE IF st.is_on_break
            THEN /\ energy_storage' = Store(s, st)
                 /\ regen_log' = SetLog(s, LogAfterAccess(s))
                 /\ response' = Resp("start_break", s, 400, "Already on break", 0, "none")
          ELSE /\ energy_storage' = Store(s, st2)
               /\ regen_log' = SetLog(s, BeginBreak(
                      IF st.is_regenerating /\ st.regeneration_paused_at = NoTime
                          THEN MarkPause(LogAfterAccess(s), st)
                          ELSE LogAfterAccess(s)))
               /\ response' = Resp("start_break", s, 200, "", energy_to_restore,
                                   "break_started")

RestoredByBreak_unfloored(st, actual_duration) ==
    Min(st.max_energy - st.current_energy, TruncDiv(actual_duration, 15 * 60))

\* lines 620-623: min(deficit, max(1, int(actual_duration / 15))), the
\* duration in seconds
RestoredByBreak(st, actual_duration) ==
    Min(st.max_energy - st.current_energy,
        Max(1, TruncDiv(actual_duration, 15 * 60)))

\* (a variant that keeps the anchor the session had before the break)
BreakAnchor_kept(st) == st.last_regeneration_time

\* line 633: state.last_regeneration_time = datetime.now()
BreakAnchor(st) == now

\* POST /api/energy/restore
complete_break(s) ==
    LET st == get_or_create_energy_state(s)
        \* now - (break_end_time - 15 minutes), seconds; / 60 in the code
        actual_duration == now - (st.break_end_time - 15 * 60)
        energy_restored == RestoredByBreak(st, actual_duration)
        st2 == BreakEnded([st EXCEPT !.current_energy =
                              Min(st.max_energy, st.current_energy + energy_restored)])
        below == st2.current_energy < st2.max_energy
        st3 == IF below
                 THEN [st2 EXCEPT !.is_regenerating = TRUE,
                                  !.regeneration_paused_at = NoTime,
                                  !.last_regeneration_time = BreakAnchor(st)]
                 ELSE st2
    IN /\ request' = NoRequest
       /\ UNCHANGED <<now, today, tick_pending, outline_vars>>
       /\ IF ~st.is_on_break
            THEN /\ energy_storage' = Store(s, st)
                 /\ regen_log' = SetLog(s, LogAfterAccess(s))
                 /\ response' = Resp("complete_break", s, 400, "Not currently on break",
                                     0, "none")
          ELSE IF st.break_end_time = NoTime
            THEN /\ energy_storage' = Store(s, st)
                 /\ regen_log' = SetLog(s, LogAfterAccess(s))
                 /\ response' = Resp("complete_break", s, 400, "No break end time set",
                                     0, "none")
          ELSE /\ energy_storage' = Store(s, st3)
               /\ regen_log' = SetLog(s, EndBreak(IF below THEN Restart(LogAfterAccess(s))
                                                     ELSE LogAfterAccess(s)))
               /\ response' = Resp("complete_break", s, 200, "", energy_restored,
                                   "energy_restored")

\* GET /api/energy/regeneration
get_regeneration_state(s) ==
    LET st == get_or_create_energy_state(s)
        r == calculate_regeneration_state(st)
    IN /\ energy_storage' = Store(s, st)
       /\ regen_log' = SetLog(s, LogAfterAccess(s))
       /\ response' = Resp("get_regeneration",  s, 200,
                           IF r.is_regenerating THEN "regenerating" ELSE "",
                           r.regeneration_time_remaining, "none")
       /\ request' = NoRequest
       /\ UNCHANGED <<now, today, tick_pending, outline_vars>>

\* POST /api/energy/regeneration/pause
\* (a variant that pauses again over a marker already set)
PauseApplies_again(st) == st.is_regenerating /\ ~st.is_on_break

\* line 663: state.is_regenerating and state.regeneration_paused_at is None
\* and not state.is_on_break
PauseApplies(st) ==
    st.is_regenerating /\ st.regeneration_paused_at = NoTime /\ ~st.is_on_break

pause_regeneration(s) ==
    LET st == get_or_create_energy_state(s)
        effective == PauseApplies(st)
        st2 == [st EXCEPT !.regeneration_paused_at = now]
        r == calculate_regeneration_state(st2)
    IN /\ energy_storage' = Store(s, IF effective THEN st2 ELSE st)
       /\ regen_log' = SetLog(s, IF effective
                                   THEN MarkPause(LogAfterAccess(s), st)
                                   ELSE LogAfterAccess(s))
       /\ response' = IF effective
                        THEN Resp("pause", s, 200, "", r.regeneration_time_remaining,
                                  "regeneration_paused")
                        ELSE Resp("pause", s, 200, "", 0, "none")
       /\ request' = NoRequest
       /\ UNCHANGED <<now, today, tick_pending, outline_vars>>

ResumedAnchor_unshifted(st) == st.last_regeneration_time

\* (a variant that starts the interval over at the resume)
ResumedAnchor_restarted(st) == now

\* lines 687-690: the anchor moved forward by the time spent paused
ResumedAnchor(st) ==
    st.last_regeneration_time + (now - st.regeneration_paused_at)

\* POST /api/energy/regeneration/resume
resume_regeneration(s) ==
    LET st == get_or_create_energy_state(s)
        effective == st.regeneration_paused_at # NoTime /\ ~st.is_on_break
        pause_duration == now - st.regeneration_paused_at
        st2 == [st EXCEPT !.last_regeneration_time = ResumedAnchor(st),
                          !.regeneration_paused_at = NoTime,
                          !.is_regenerating = TRUE]
        r == calculate_regeneration_state(st2)
        l == LogAfterAccess(s)
    IN /\ energy_storage' = Store(s, IF effective THEN st2 ELSE st)
       /\ regen_log' = SetLog(s, IF effective
                                   THEN ClearPause([l EXCEPT !.paused = @ + pause_duration])
                                   ELSE l)
       /\ response' = IF effective
                        THEN Resp("resume", s, 200, "", r.regeneration_time_remaining,
                                  "regeneration_resumed")
                        ELSE Resp("resume", s, 200, "", 0, "none")
       /\ request' = NoRequest
       /\ UNCHANGED <<now, today, tick_pending, outline_vars>>

-----------------------------------------------------------------------------
(* Background regeneration task (one asyncio task; it suspends only in the *)
(* broadcast between the increment and the at-max check)                   *)

\* (a variant that does not wait for the interval to pass)
TickWouldRegenerate_early(st) ==
    /\ st.is_regenerating
    /\ st.regeneration_paused_at = NoTime
    /\ ~st.is_on_break
    /\ st.current_energy < st.max_energy

\* the conditions of lines 738-754 under which the tick regenerates
TickWouldRegenerate(st) ==
    /\ st.is_regenerating
    /\ st.regeneration_paused_at = NoTime
    /\ ~st.is_on_break
    /\ st.current_energy < st.max_energy
    /\ now - st.last_regeneration_time >= REGENERATION_INTERVAL

\* (a variant that leaves last_regeneration_time where it was)
TickAnchor_kept(st) == st.last_regeneration_time

\* line 758: state.last_regeneration_time = datetime.now()
TickAnchor(st) == now

\* lines 737-769 for one session: increment, restart the interval, broadcast
regeneration_task(s) ==
    /\ tick_pending = "none"
    /\ s \in DOMAIN energy_storage
    /\ TickWouldRegenerate(energy_storage[s])
    /\ LET st == energy_storage[s]
       IN energy_storage' = Store(s,
              [st EXCEPT !.current_energy =
                             Min(st.max_energy, st.current_energy + REGENERATION_AMOUNT),
                         !.last_regeneration_time = TickAnchor(st)])
    /\ regen_log' = SetLog(s, Incremented(CloseInterval(regen_log[s]),
                                          energy_storage'[s]))
    /\ tick_pending' = s
    /\ response' = Resp("regeneration_task", s, 0, "", REGENERATION_AMOUNT,
                        "energy_regenerated")
    /\ request' = NoRequest
    /\ UNCHANGED <<now, today, outline_vars>>

\* lines 771-773, after the broadcast returns
regeneration_task_resume ==
    /\ tick_pending # "none"
    /\ LET st == energy_storage[tick_pending]
       IN energy_storage' = Store(tick_pending,
              IF st.current_energy >= st.max_energy
                  THEN [st EXCEPT !.is_regenerating = FALSE]
                  ELSE st)
    /\ tick_pending' = "none"
    /\ response' = NoResponse
    /\ request' = NoRequest
    /\ UNCHANGED <<now, today, regen_log, outline_vars>>

-----------------------------------------------------------------------------
(* Outline text.  A text is a sequence of characters (one-character        *)
(* strings); the functions below are Python's str and re operations as     *)
(* parse_markdown_line uses them.                                          *)

NL == "\n"
UpperCase == <<"A", "B", "C", "D", "E", "F", "G", "H", "I", "J", "K", "L", "M",
               "N", "O", "P", "Q", "R", "S", "T", "U", "V", "W", "X", "Y", "Z">>
LowerCase == <<"a", "b", "c", "d", "e", "f", "g", "h", "i", "j", "k", "l", "m",
               "n", "o", "p", "q", "r", "s", "t", "u", "v", "w", "x", "y", "z">>
IsUpper(c) == \E i \in 1..26 : UpperCase[i] = c
IsLower(c) == \E i \in 1..26 : LowerCase[i] = c

\* str.lower()
LowerChar(c) == IF IsUpper(c) THEN LowerCase[CHOOSE i \in 1..26 : UpperCase[i] = c]
                ELSE c
Lower(s) == [i \in 1..Len(s) |-> LowerChar(s[i])]

\* what str.strip() removes, and the classes \w and \d
IsSpace(c) == c \in {" ", "\t"}
IsWord(c) == IsDigit(c) \/ IsUpper(c) \/ IsLower(c) \/ c = "_"

\* len(line) - len(line.lstrip())
LeadingSpaces(s) ==
    IF \A i \in 1..Len(s) : IsSpace(s[i]) THEN Len(s)
    ELSE (CHOOSE i \in 1..Len(s) :
              ~IsSpace(s[i]) /\ \A j \in 1..(i - 1) : IsSpace(s[j])) - 1

TrailingSpaces(s) ==
    IF \A i \in 1..Len(s) : IsSpace(s[i]) THEN Len(s)
    ELSE Len(s) - (CHOOSE i \in 1..Len(s) :
              ~IsSpace(s[i]) /\ \A j \in (i + 1)..Len(s) : IsSpace(s[j]))

\* str.strip()
Strip(s) ==
    IF \A i \in 1..Len(s) : IsSpace(s[i]) THEN <<>>
    ELSE SubSeq(s, LeadingSpaces(s) + 1, Len(s) - TrailingSpaces(s))

\* str.startswith(prefix)
StartsWith(s, prefix) ==
    Len(s) >= Len(prefix) /\ SubSeq(s, 1, Len(prefix)) = prefix

\* s[k:] with a 0-based k
From(s, k) == SubSeq(s, k + 1, Len(s))

\* content.split('\n')
RECURSIVE SplitLines(_)
SplitLines(s) ==
    IF \A i \in 1..Len(s) : s[i] # NL THEN <<s>>
    ELSE LET i == CHOOSE i \in 1..Len(s) :
                      s[i] = NL /\ \A j \in 1..(i - 1) : s[j] # NL
         IN <<SubSeq(s, 1, i - 1)>> \o SplitLines(SubSeq(s, i + 1, Len(s)))

\* "\n".join(lines)
RECURSIVE JoinLines(_)
JoinLines(lines) ==
    IF lines = <<>> THEN <<>>
    ELSE IF Len(lines) = 1 THEN lines[1]
    ELSE lines[1] \o <<NL>> \o JoinLines(Tail(lines))

\* the number of consecutive characters of s from position i on that are
\* digits (class "d") or word characters (class "w")
RECURSIVE RunLen(_, _, _)
RunLen(s, i, class) ==
    IF i > Len(s) THEN 0
    ELSE IF (class = "d" /\ IsDigit(s[i])) \/ (class = "w" /\ IsWord(s[i]))
        THEN 1 + RunLen(s, i + 1, class)
    ELSE 0

DigitsAt(s, i, n) == i + n - 1 <= Len(s) /\ \A k \in i..(i + n - 1) : IsDigit(s[k])
CharAt(s, i, c) == i <= Len(s) /\ s[i] = c

\* The length of the match of a metadata pattern at position i of s, 0 when
\* the pattern does not match there:
\*   category @\w+   effort !\d+[mhd]   friction %\d
\*   due_date \^\d{4}-\d{2}-\d{2}   completed_at \{[^}]+\}
MatchLen(kind, s, i) ==
    IF kind = "category" THEN
        IF s[i] = "@" /\ RunLen(s, i + 1, "w") > 0
            THEN 1 + RunLen(s, i + 1, "w") ELSE 0
    ELSE IF kind = "effort" THEN
        LET k == RunLen(s, i + 1, "d")
        IN IF s[i] = "!" /\ k > 0 /\ i + 1 + k <= Len(s)
              /\ s[i + 1 + k] \in {"m", "h", "d"}
              THEN k + 2 ELSE 0
    ELSE IF kind = "friction" THEN
        IF s[i] = "%" /\ DigitsAt(s, i + 1, 1) THEN 2 ELSE 0
    ELSE IF kind = "due_date" THEN
        IF /\ s[i] = "^"
           /\ DigitsAt(s, i + 1, 4) /\ CharAt(s, i + 5, "-")
           /\ DigitsAt(s, i + 6, 2) /\ CharAt(s, i + 8, "-")
           /\ DigitsAt(s, i + 9, 2)
            THEN 11 ELSE 0
    ELSE \* completed_at
        IF s[i] = "{" /\ \E j \in (i + 1)..Len(s) : s[j] = "}"
            THEN LET j == CHOOSE j \in (i + 1)..Len(s) :
                              s[j] = "}" /\ \A k \in (i + 1)..(j - 1) : s[k] # "}"
                 IN IF j > i + 1 THEN j - i + 1 ELSE 0
            ELSE 0

\* re.search(pattern, s): the position of the leftmost match, 0 for no match
SearchPos(kind, s) ==
    IF \E i \in 1..Len(s) : MatchLen(kind, s, i) > 0
        THEN CHOOSE i \in 1..Len(s) :
                 MatchLen(kind, s, i) > 0
                 /\ \A j \in 1..(i - 1) : MatchLen(kind, s, j) = 0
        ELSE 0

\* match.group(1) of the leftmost match, <<>> (None) for no match; the group
\* leaves out the sigil, and for completed_at the closing brace
GroupAt(kind, s, i) ==
    IF i = 0 THEN <<>>
    ELSE SubSeq(s, i + 1,
                i + MatchLen(kind, s, i) - (IF kind = "completed_at" THEN 2 ELSE 1))
Group1(kind, s) == GroupAt(kind, s, SearchPos(kind, s))

\* re.sub(pattern, '', s): every non-overlapping match removed, left to right
RECURSIVE SubFrom(_, _, _)
SubFrom(kind, s, i) ==
    IF i > Len(s) THEN <<>>
    ELSE LET n == MatchLen(kind, s, i)
         IN IF n > 0 THEN SubFrom(kind, s, i + n)
            ELSE <<s[i]>> \o SubFrom(kind, s, i + 1)

\* lines 218-220: the title is the content with every pattern removed in turn
MetadataKinds == <<"category", "effort", "friction", "due_date", "completed_at">>

RECURSIVE RemoveMetadata(_, _)
RemoveMetadata(title, k) ==
    IF k > Len(MetadataKinds) THEN title
    ELSE RemoveMetadata(Strip(SubFrom(MetadataKinds[k], title, 1)), k + 1)

-----------------------------------------------------------------------------
(* Tasks, the parser and the serializer.  A task id "task_<n>" is the      *)
(* number n; None is <<>> for the optional strings (a match group is never *)
(* empty), NoFriction for friction and NoId for parent_id.                 *)

NoFriction == -1
NoId == -1

TaskDict(id, title, is_idea, is_completed, category, effort, friction, due_date, completed_at) ==
    [id |-> id, title |-> title, is_idea |-> is_idea, is_completed |-> is_completed,
     category |-> category, effort |-> effort, friction |-> friction,
     due_date |-> due_date, completed_at |-> completed_at,
     parent_id |-> NoId, subtasks |-> <<>>]

TaskBox == <<"-", " ", "[">>

\* int(friction_match.group(1)) if friction_match else None
FrictionOf(group) == IF group = <<>> THEN NoFriction ELSE IntOf(group)

\* lines 201-235: the task of a line's content, the idea marker taken off
TaskOfContent(content, is_idea, is_completed, indent_level, line_num) ==
    [status |-> "ok",
     indent_level |-> indent_level,
     task |-> TaskDict(line_num,
                       RemoveMetadata(content, 1),
                       is_idea,
                       is_completed,
                       Group1("category", content),
                       Group1("effort", content),
                       FrictionOf(Group1("friction", content)),
                       Group1("due_date", content),
                       Group1("completed_at", content))]

\* lines 197-199: is_idea, and content[1:].strip() for an idea
TaskOfBox(content, is_completed, indent_level, line_num) ==
    IF StartsWith(content, <<"?">>)
        THEN TaskOfContent(Strip(From(content, 1)), TRUE, is_completed,
                           indent_level, line_num)
        ELSE TaskOfContent(content, FALSE, is_completed, indent_level, line_num)

NoTask(status, indent_level, line_num) ==
    [status |-> status, indent_level |-> indent_level,
     task |-> TaskDict(line_num, <<>>, FALSE, FALSE, <<>>, <<>>, NoFriction,
                       <<>>, <<>>)]

\* lines 189-195 on the stripped line: status "none" is the None result,
\* "IndexError" the exception line[3] raises on a line of 3 characters
TaskOfLine(line, indent_level, line_num) ==
    IF ~StartsWith(line, TaskBox) THEN NoTask("none", indent_level, line_num)
    ELSE IF Len(line) < 4 THEN NoTask("IndexError", indent_level, line_num)
    ELSE TaskOfBox(Strip(From(line, 5)), line[4] = "x", indent_level, line_num)

\* parse_markdown_line(line, line_num)
parse_markdown_line(raw, line_num) ==
    TaskOfLine(Strip(raw), LeadingSpaces(raw) \div 2, line_num)

\* the section lists, keyed by name
SectionNames == <<"today", "ideas", "backlog">>
SectionText(name) ==
    IF name = "today" THEN <<"t", "o", "d", "a", "y">>
    ELSE IF name = "ideas" THEN <<"i", "d", "e", "a", "s">>
    ELSE <<"b", "a", "c", "k", "l", "o", "g">>
EmptySections == [today |-> <<>>, ideas |-> <<>>, backlog |-> <<>>]

\* (a variant that files the tasks under any other header in the backlog)
SectionKey_fallback(text) ==
    IF \E i \in 1..3 : SectionText(SectionNames[i]) = text
        THEN SectionNames[CHOOSE i \in 1..3 : SectionText(SectionNames[i]) = text]
        ELSE "backlog"

\* the key of `sections` a header text selects, "KeyError" when it is no key
SectionKey(text) ==
    IF \E i \in 1..3 : SectionText(SectionNames[i]) = text
        THEN SectionNames[CHOOSE i \in 1..3 : SectionText(SectionNames[i]) = text]
        ELSE "KeyError"

\* task_stack holds references to task dicts: here the path of each (the
\* indexes from its section list down through the subtasks lists)
RECURSIVE NodeAt(_, _)
NodeAt(tasks, path) ==
    IF Len(path) = 1 THEN tasks[path[1]]
    ELSE NodeAt(tasks[path[1]].subtasks, Tail(path))

\* parent["subtasks"].append(task) / sections[...].append(task)
RECURSIVE AppendAt(_, _, _)
AppendAt(tasks, path, t) ==
    IF path = <<>> THEN Append(tasks, t)
    ELSE [tasks EXCEPT ![path[1]] =
             [@ EXCEPT !.subtasks = AppendAt(@, Tail(path), t)]]

\* (a variant that also pops the entry at indent_level - 1)
PopTo_strict(stack, indent_level) ==
    IF Len(stack) >= indent_level
        THEN SubSeq(stack, 1, Max(indent_level - 1, 0)) ELSE stack

\* while len(task_stack) > indent_level: task_stack.pop()
PopTo(stack, indent_level) ==
    IF Len(stack) > indent_level THEN SubSeq(stack, 1, indent_level) ELSE stack

HeaderMark == <<"#", " ">>

\* if indent_level == len(task_stack): task_stack.append(task_data)
PushIf(stack, indent_level, path) ==
    IF indent_level = Len(stack) THEN Append(stack, path) ELSE stack

\* (a variant that appends the subtask without naming its parent)
AddSubtask_unparented(acc, task, indent_level, stack, key, parent) ==
    [acc EXCEPT
        !.sections[key] = AppendAt(@, stack[Len(stack)], task),
        !.task_stack = PushIf(stack, indent_level,
                              stack[Len(stack)] \o <<Len(parent.subtasks) + 1>>)]

\* lines 264-266 and 270-271: the task becomes the last subtask of `parent`,
\* the task at the top of the stack
AddSubtask(acc, task, indent_level, stack, key, parent) ==
    [acc EXCEPT
        !.sections[key] = AppendAt(@, stack[Len(stack)],
                                   [task EXCEPT !.parent_id = parent.id]),
        !.task_stack = PushIf(stack, indent_level,
                              stack[Len(stack)] \o <<Len(parent.subtasks) + 1>>)]

\* lines 268 and 270-271: the task becomes the last task of the section
AddTask(acc, task, indent_level, stack, key) ==
    IF key = "KeyError" THEN [acc EXCEPT !.status = "KeyError"]
    ELSE [acc EXCEPT
             !.sections[key] = Append(@, task),
             !.task_stack = PushIf(stack, indent_level,
                                   <<Len(acc.sections[key]) + 1>>)]

\* lines 263-271, `stack` being the stack after the pops
Attach(acc, task, indent_level, stack, key) ==
    IF indent_level > 0 /\ stack # <<>>
        THEN AddSubtask(acc, task, indent_level, stack, key,
                        NodeAt(acc.sections[key], stack[Len(stack)]))
        ELSE AddTask(acc, task, indent_level, stack, key)

\* lines 255-271 for the result r of parse_markdown_line
AttachParsed(acc, r) ==
    IF r.status = "IndexError" THEN [acc EXCEPT !.status = "IndexError"]
    ELSE Attach(acc, r.task, r.indent_level,
                PopTo(acc.task_stack, r.indent_level),
                SectionKey(acc.current_section))

\* the body of the loop of lines 248-271 for one line
ParseLine(acc, raw, line_num) ==
    IF StartsWith(Strip(raw), HeaderMark)
      THEN [acc EXCEPT !.current_section = Lower(From(Strip(raw), 2)),
                       !.task_stack = <<>>]
    ELSE IF acc.current_section # <<>> /\ StartsWith(Strip(raw), TaskBox)
      THEN AttachParsed(acc, parse_markdown_line(raw, line_num))
    ELSE acc

RECURSIVE ParseLines(_, _, _)
ParseLines(acc, lines, k) ==
    IF k > Len(lines) \/ acc.status # "ok" THEN acc
    ELSE ParseLines(ParseLine(acc, lines[k], k - 1), lines, k + 1)

\* what parse_markdown returns (status "ok") or raises
Outcome(acc) ==
    [status |-> acc.status,
     sections |-> IF acc.status = "ok" THEN acc.sections ELSE EmptySections]

\* parse_markdown() on a file with this content
parse_markdown_text(content) ==
    Outcome(ParseLines([status |-> "ok", sections |-> EmptySections,
                        current_section |-> <<>>, task_stack |-> <<>>],
                       SplitLines(content), 1))

\* str(n) for n >= 0
RECURSIVE Str(_)
Str(n) == IF n < 10 THEN <<Digits[n + 1]>>
          ELSE Str(n \div 10) \o <<Digits[(n % 10) + 1]>>

\* "  " * indent
RECURSIVE Indent(_)
Indent(n) == IF n = 0 THEN <<>> ELSE <<" ", " ">> \o Indent(n - 1)

\* the first line task_to_markdown renders for a task (lines 277-302)
TaskLine(task, indent) ==
    Indent(indent) \o <<"-", " ">>
    \o (IF task.is_completed THEN <<"[", "x", "]">> ELSE <<"[", " ", "]">>)
    \o <<" ">>
    \o (IF task.is_idea THEN <<"?", " ">> ELSE <<>>)
    \o task.title
    \o (IF task.category # <<>> THEN <<" ", "@">> \o task.category ELSE <<>>)
    \o (IF task.effort # <<>> THEN <<" ", "!">> \o task.effort ELSE <<>>)
    \o (IF task.friction # NoFriction /\ task.friction # 0
           THEN <<" ", "%">> \o Str(task.friction) ELSE <<>>)
    \o (IF task.due_date # <<>> THEN <<" ", "^">> \o task.due_date ELSE <<>>)
    \o (IF task.completed_at # <<>>
           THEN <<" ", "{">> \o task.completed_at \o <<"}">> ELSE <<>>)

\* task_to_markdown(task, indent): the task's line, then its subtasks'
RECURSIVE task_to_markdown(_, _)
RECURSIVE TasksLines(_, _)
task_to_markdown(task, indent) ==
    JoinLines(<<TaskLine(task, indent)>> \o TasksLines(task.subtasks, indent + 1))
TasksLines(tasks, indent) ==
    IF tasks = <<>> THEN <<>>
    ELSE <<task_to_markdown(tasks[1], indent)>> \o TasksLines(Tail(tasks), indent)

\* the text save_markdown(sections) writes (lines 317-324)
RECURSIVE SectionBlocks(_, _)
SectionBlocks(sections, k) ==
    IF k > Len(SectionNames) THEN <<>>
    ELSE <<HeaderMark \o SectionText(SectionNames[k])>>
         \o TasksLines(sections[SectionNames[k]], 0)
         \o << <<>> >>
         \o SectionBlocks(sections, k + 1)

save_markdown_text(sections) == JoinLines(SectionBlocks(sections, 1))

-----------------------------------------------------------------------------
(* calculate_xp, over the task dicts the parser makes *)

\* lines 474-482: minutes of the effort token, 30 when the task has none
XpMinutes(effort) ==
    IF effort = <<>> THEN 30
    ELSE IF LastChar(effort) \in {"m", "h", "d"} THEN EffortMinutes(effort)
    ELSE 30

\* (a variant that takes the friction as it is)
XpFriction_asis(friction) == friction

\* task.get("friction") or 2
XpFriction(friction) ==
    IF friction = NoFriction \/ friction = 0 THEN 2 ELSE friction

\* the largest r in lo..hi with 3 * (2r - 1)^2 <= k
RECURSIVE LargestRounded(_, _, _)
LargestRounded(k, lo, hi) ==
    IF lo = hi THEN lo
    ELSE LET mid == (lo + hi + 1) \div 2
         IN IF 3 * (2 * mid - 1) * (2 * mid - 1) <= k
                THEN LargestRounded(k, mid, hi)
                ELSE LargestRounded(k, lo, mid - 1)

\* round(100 * (1 + minutes / 60) ** 0.5 * friction) for friction >= 0: the
\* integer r with (r - 1/2)^2 <= 10000 * friction^2 * (60 + minutes) / 60
\* < (r + 1/2)^2 (the product is never half an integer)
MaxXp == 13000
RoundedXp(minutes, friction) ==
    LargestRounded(2000 * friction * friction * (60 + minutes), 0, MaxXp)

\* lines 488-492: the task has subtasks and all are completed
AllSubtasksCompleted(task) ==
    /\ task.subtasks # <<>>
    /\ \A k \in DOMAIN task.subtasks : task.subtasks[k].is_completed

\* calculate_xp(task); int(base_xp * 1.5) is floor(3 * base_xp / 2)
calculate_xp(task) ==
    LET base_xp == RoundedXp(XpMinutes(task.effort), XpFriction(task.friction))
    IN IF AllSubtasksCompleted(task) THEN (3 * base_xp) \div 2 ELSE base_xp

NoXp == [called |-> FALSE, effort |-> <<>>, friction |-> NoFriction, subtasks |-> <<>>, value |-> 0]

\* calculate_xp applied to a task
apply_calculate_xp(task) ==
    /\ xp' = [called |-> TRUE, effort |-> task.effort, friction |-> task.friction,
              subtasks |-> [k \in DOMAIN task.subtasks |-> task.subtasks[k].is_completed],
              value |-> calculate_xp(task)]
    /\ response' = NoResponse
    /\ request' = NoRequest
    /\ UNCHANGED <<todo_file, backups, parsed, saved, quick_win, energy_vars>>

-----------------------------------------------------------------------------
(* The outline file and its two endpoints *)

NotParsed == [status |-> "none", sections |-> EmptySections, text |-> <<>>]
\* no quick win asked for yet / what GET /api/quick-win returned
NoQuickWin == [called |-> FALSE, found |-> FALSE, id |-> NoId, effort_minutes |-> 0, xp |-> 0]
NotSaved == [source |-> "none", sections |-> EmptySections, text |-> <<>>]

\* what parse_markdown writes when the file is missing (line 240)
DefaultText ==
    <<"#", " ", "t", "o", "d", "a", "y", "\n", "\n", "#", " ", "i", "d",
      "e", "a", "s", "\n", "\n", "#", " ", "b", "a", "c", "k", "l", "o",
      "g", "\n">>

\* The user edits todos.md by hand.
EditFile(text) ==
    /\ todo_file' = [exists |-> TRUE, content |-> text]
    /\ parsed' = NotParsed
    /\ saved' = NotSaved
    /\ response' = NoResponse
    /\ request' = NoRequest
    /\ quick_win' = NoQuickWin
    /\ UNCHANGED <<backups, xp, energy_vars>>

ParsedFrom(r, text) == [status |-> r.status, sections |-> r.sections, text |-> text]

\* GET /api/todos: parse_markdown()
get_todos ==
    /\ IF ~todo_file.exists
         THEN /\ todo_file' = [exists |-> TRUE, content |-> DefaultText]
              /\ parsed' = [status |-> "ok", sections |-> EmptySections,
                            text |-> <<>>]
         ELSE /\ parsed' = ParsedFrom(parse_markdown_text(todo_file.content),
                                      todo_file.content)
              /\ UNCHANGED todo_file
    /\ response' = Resp("get_todos", "none", IF parsed'.status = "ok" THEN 200 ELSE 500,
                        IF parsed'.status = "ok" THEN "" ELSE parsed'.status, 0,
                        "none")
    /\ request' = NoRequest
    /\ UNCHANGED <<backups, saved, xp, quick_win, energy_vars>>

\* what a client may post: a tree of its own making, or the sections the last
\* GET returned to it
PostBodies(trees) ==
    { [source |-> "client", sections |-> t, text |-> <<>>] : t \in trees }
    \cup (IF parsed.status = "ok"
            THEN {[source |-> "reparsed", sections |-> parsed.sections,
                   text |-> parsed.text]}
            ELSE {})

\* POST /api/todos: save_markdown(sections), then the broadcast
update_todos(body) ==
    /\ backups' = IF todo_file.exists THEN backups \cup {now} ELSE backups
    /\ todo_file' = [exists |-> TRUE, content |-> save_markdown_text(body.sections)]
    /\ saved' = body
    /\ parsed' = NotParsed
    /\ response' = Resp("update_todos", "none", 200, "", 0, "update")
    /\ request' = NoRequest
    /\ UNCHANGED <<xp, quick_win, energy_vars>>

-----------------------------------------------------------------------------
(* The environment: the wall clock and the calendar *)

AdvanceUntil(limit) ==
    /\ now + TimeStep <= limit
    /\ now' = now + TimeStep
    /\ response' = NoResponse
    /\ request' = NoRequest
    /\ UNCHANGED <<today, energy_storage, tick_pending, regen_log, outline_vars>>

Advance == AdvanceUntil(MaxTime)

Midnight ==
    /\ now + TimeStep <= MaxTime
    /\ today < MaxDay
    /\ now' = now + TimeStep
    /\ today' = today + 1
    /\ response' = NoResponse
    /\ request' = NoRequest
    /\ UNCHANGED <<energy_storage, tick_pending, regen_log, outline_vars>>

-----------------------------------------------------------------------------
(* Request inputs *)

\* ConsumeEnergyRequest.amount is validated to 1..12 before the handler runs
Amounts == {1, 5, 12}

MetadataInputs ==
    { NoMetadata,
      Metadata(<<"1", "h">>, 2),
      Metadata(<<"3", "0", "m">>, 5),
      Metadata(<<>>, 3),
      [sent |-> TRUE, given |-> TRUE, effort |-> <<"1", "h">>, has_friction |-> FALSE, friction |-> 0] }

\* (amount, task_metadata) pairs: amount is required even when metadata is sent
ConsumeInputs ==
    { <<a, NoMetadata>> : a \in Amounts }
    \cup { <<1, md>> : md \in MetadataInputs \ {NoMetadata} }
    \cup { <<12, Metadata(<<"1", "h">>, 2)>>, <<5, EmptyMetadata>> }

BreakMinutes == {2, 15, 30, 120}

\* task metadata with an effort token <n>m, <n>h or <n>d and a friction
MaxEffortNumber == 2
EffortNumbers == 0..MaxEffortNumber \cup {5, 29, 30, 60, 90}
EffortUnits == {"m", "h", "d"}
Frictions == {-6, 1, 2, 3, 5, 9}
CostInputs ==
    { Metadata(Str(n) \o <<u>>, f) :
        n \in EffortNumbers, u \in EffortUnits, f \in Frictions }

-----------------------------------------------------------------------------
Init ==
    /\ now = 0
    /\ today = 0
    /\ energy_storage = [x \in {} |-> NewEnergyState]
    /\ tick_pending = "none"
    /\ response = NoResponse
    /\ request = NoRequest
    /\ regen_log = [x \in {} |-> FirstLog]
    /\ todo_file = [exists |-> FALSE, content |-> <<>>]
    /\ backups = {}
    /\ parsed = NotParsed
    /\ saved = NotSaved
    /\ xp = NoXp
    /\ quick_win = NoQuickWin

Next ==
    \/ \E s \in SessionIds : get_energy(s)
    \/ \E s \in SessionIds, req \in ConsumeInputs :
           consume_energy(s, req[1], req[2])
    \/ \E s \in SessionIds, m \in BreakMinutes : start_break(s, m)
    \/ \E s \in SessionIds : complete_break(s)
    \/ \E s \in SessionIds : get_regeneration_state(s)
    \/ \E s \in SessionIds : pause_regeneration(s)
    \/ \E s \in SessionIds : resume_regeneration(s)
    \/ \E s \in SessionIds : regeneration_task(s)
    \/ regeneration_task_resume
    \/ Advance
    \/ Midnight

Spec == Init /\ [][Next]_vars

\* calculate_energy_cost over its inputs: consume requests that carry task
\* metadata, the energy refilled by the daily reset
NextCost ==
    \/ \E s \in SessionIds, md \in CostInputs : consume_energy(s, 1, md)
    \/ Midnight

SpecCost == Init /\ [][NextCost]_vars

\* breaks from start to end: a client that consumes, takes breaks and ends
\* them or lets them run out, over an hour of clock time
NextBreak ==
    \/ \E s \in SessionIds, a \in Amounts : consume_energy(s, a, NoMetadata)
    \/ \E s \in SessionIds, m \in BreakMinutes : start_break(s, m)
    \/ \E s \in SessionIds : complete_break(s)
    \/ \E s \in SessionIds : get_energy(s)
    \/ AdvanceUntil(MaxTimeBreak)

SpecBreak == Init /\ [][NextBreak]_vars

\* calculate_xp over the tasks a parsed file can hold: effort absent or a
\* token <n>m, <n>h, <n>d, friction absent or one digit, up to two subtasks
XpEfforts ==
    {<<>>}
    \cup { Str(n) \o <<u>> : n \in 0..MaxEffortNumber \cup {30, 45}, u \in {"m", "h"} }
    \cup { Str(n) \o <<"d">> : n \in 0..MaxEffortNumber }
XpFrictions == {NoFriction, 0, 1, 2, 3, 5, 9}
XpSubtasks == { <<>> } \cup { <<a>> : a \in BOOLEAN } \cup { <<a, b>> : a, b \in BOOLEAN }
XpTask(effort, friction, completed) ==
    [TaskDict(NoId, <<"a">>, FALSE, TRUE, <<>>, effort, friction, <<>>, <<>>)
        EXCEPT !.subtasks =
            [k \in DOMAIN completed |->
                TaskDict(NoId, <<"b">>, FALSE, completed[k], <<>>, <<>>,
                         NoFriction, <<>>, <<>>)]]
XpTasks ==
    { XpTask(e, f, c) : e \in XpEfforts, f \in XpFrictions, c \in XpSubtasks }

NextXp == \E task \in XpTasks : apply_calculate_xp(task)

SpecXp == Init /\ [][NextXp]_vars

\* three quarters of an hour of one session: a client that consumes single
\* points, pauses, resumes and takes breaks while the background task ticks
NextTicks ==
    \/ \E s \in SessionIds : consume_energy(s, 1, NoMetadata)
    \/ \E s \in SessionIds : pause_regeneration(s)
    \/ \E s \in SessionIds : resume_regeneration(s)
    \/ \E s \in SessionIds : start_break(s, 15)
    \/ \E s \in SessionIds : complete_break(s)
    \/ \E s \in SessionIds : regeneration_task(s)
    \/ regeneration_task_resume
    \/ AdvanceUntil(MaxTimeTicks)

SpecTicks == Init /\ [][NextTicks]_vars

\* two clients, each with a session id of its own, over a quarter of an hour:
\* both read and consume, the first also takes breaks and pauses
UserSessions == {"user1", "user2"}
UserAmounts == {3, 5}
UserBreakMinutes == {15}

NextSessions ==
    \/ \E s \in UserSessions : get_energy(s)
    \/ \E s \in UserSessions, a \in UserAmounts :
           consume_energy(s, a, NoMetadata)
    \/ \E m \in UserBreakMinutes : start_break("user1", m)
    \/ complete_break("user1")
    \/ pause_regeneration("user1")
    \/ resume_regeneration("user1")
    \/ \E s \in UserSessions : regeneration_task(s)
    \/ regeneration_task_resume
    \/ AdvanceUntil(MaxTimeSessions)

SpecSessions == Init /\ [][NextSessions]_vars

-----------------------------------------------------------------------------
(* The outline: what the user types and what a client posts *)

MaxTaskLines == 3        \* task lines of a hand-written section
MaxDepth == 2            \* nesting depth of a tree a client posts

\* "- [ ] content" / "- [x] content" behind `spaces` leading spaces
RECURSIVE Spaces(_)
Spaces(n) == IF n = 0 THEN <<>> ELSE <<" ">> \o Spaces(n - 1)
TaskText(spaces, done, content) ==
    Spaces(spaces) \o <<"-", " ", "[", IF done THEN "x" ELSE " ", "]", " ">>
    \o content
Header(name) == HeaderMark \o SectionText(name)

\* one section whose task lines take every indentation
\* the leading spaces of a hand-written task line: levels 0, 0, 1, 1, 2
IndentChoices == {0, 1, 2, 3, 4}
Indentations == UNION { [1..n -> IndentChoices] : n \in 1..MaxTaskLines }
StructureTexts ==
    { JoinLines(<<Header("today")>>
                \o [k \in DOMAIN ind |->
                       TaskText(ind[k], FALSE, <<LowerCase[k]>>)]) :
        ind \in Indentations }

\* the contents of a task line
TaskContents ==
    { <<"a">>,
      <<"?", " ", "i", "d", "e", "a">>,
      <<"a", " ", "@", "w">>,
      <<"a", " ", "!", "3", "0", "m", " ", "%", "2">>,
      <<"a", " ", "@", "w", " ", "!", "1", "h", " ", "%", "3", " ", "^", "2", "0", "2", "4", "-", "0", "1", "-", "0", "2", " ", "{", "t", "}">>,
      <<"{", "t", "}", " ", "^", "2", "0", "2", "4", "-", "0", "1", "-", "0", "2", " ", "%", "3", " ", "!", "1", "h", " ", "@", "w", " ", "a">>,
      <<"a", " ", "@", "w", " ", "b">>,
      <<"@", "w", " ", "?", "b">>,
      <<"a", " ", "%", "0">>,
      <<"!", "3", "%", "1", "0", "m">>,
      <<"a", " ", "{", " ", "b", " ", "{", "t", "}">>,
      <<>> }

ContentTexts ==
    { JoinLines(<<Header("today"), TaskText(0, done, c)>>) :
        c \in TaskContents, done \in BOOLEAN }

\* several sections, lines outside the sections, headers of other names and
\* truncated check boxes
OtherTexts ==
    { <<"#", " ", "I", "d", "e", "a", "s", "\n", "-", " ", "[", " ", "]", " ", "a", "\n", "#", " ", "b", "a", "c", "k", "l", "o", "g", "\n", "-", " ", "[", "x", "]", " ", "b", "\n", " ", " ", "-", " ", "[", " ", "]", " ", "c", "\n">>,
      <<"-", " ", "[", " ", "]", " ", "a", "\n", "#", " ", "t", "o", "d", "a", "y", "\n", "n", "o", "t", "e", "s", "\n", "-", " ", "[", " ", "]", " ", "b">>,
      <<"#", " ", "t", "o", "d", "a", "y", "\n", "-", " ", "[", " ", "]", " ", "a", "\n", "\n", " ", " ", "-", " ", "[", " ", "]", " ", "b", "\n", "#", " ", "t", "o", "d", "a", "y", "\n", " ", " ", "-", " ", "[", " ", "]", " ", "c">>,
      <<"#", " ", "o", "t", "h", "e", "r", "\n", "-", " ", "[", " ", "]", " ", "a">>,
      <<"#", " ", " ", "t", "o", "d", "a", "y", "\n", "-", " ", "[", " ", "]", " ", "a">>,
      <<"#", " ", "t", "o", "d", "a", "y", "\n", "-", " ", "[">>,
      <<"#", " ", "t", "o", "d", "a", "y", "\n", "-", " ", "[", " ", "]", " ", "a", "\n", " ", " ", "-", " ", "[">>,
      <<"#", " ", "t", "o", "d", "a", "y", "\n", "-", " ", "[", "x">>,
      <<"#", " ", "t", "o", "d", "a", "y", "\n", "-", "[", " ", "]", " ", "a">>,
      <<"-", " ", "[", "\n", "#", " ", "o", "t", "h", "e", "r">> }

OutlineTexts == StructureTexts \cup ContentTexts \cup OtherTexts

\* the tasks of a client, without subtasks
ClientTask(title, is_idea, is_completed, category, effort, friction, due_date, completed_at) ==
    TaskDict(NoId, title, is_idea, is_completed, category, effort, friction,
             due_date, completed_at)
Leaves ==
    { ClientTask(<<"a">>, FALSE, FALSE, <<>>, <<>>, NoFriction, <<>>, <<>>),
      ClientTask(<<"b">>, TRUE, FALSE, <<>>, <<>>, NoFriction, <<>>, <<>>),
      ClientTask(<<"c">>, FALSE, TRUE, <<"w">>, <<"3", "0", "m">>, 2,
                 <<"2", "0", "2", "4", "-", "0", "1", "-", "0", "2">>, <<"t">>),
      ClientTask(<<"?", "a">>, FALSE, FALSE, <<>>, <<>>, NoFriction, <<>>, <<>>),
      ClientTask(<<"a", " ", "{">>, FALSE, TRUE, <<>>, <<>>, 5, <<>>, <<"t">>),
      ClientTask(<<"a">>, FALSE, FALSE, <<>>, <<>>, 0, <<>>, <<>>),
      ClientTask(<<"a", " ", "@", "w">>, FALSE, FALSE, <<>>, <<>>, NoFriction,
                 <<>>, <<>>) }

Plain == ClientTask(<<"a">>, FALSE, FALSE, <<>>, <<>>, NoFriction, <<>>, <<>>)

\* task l at depth d, under tasks with one subtask each
RECURSIVE Under(_, _)
Under(d, l) ==
    IF d = 0 THEN l ELSE [Plain EXCEPT !.subtasks = <<Under(d - 1, l)>>]
Chains == { Under(d, l) : d \in 0..MaxDepth, l \in Leaves }

\* a task with two subtasks, the first with a subtask of its own
Families ==
    { [Plain EXCEPT !.subtasks = <<[l EXCEPT !.subtasks = <<m>>], m>>] :
        l \in Leaves, m \in Leaves }

ClientTrees ==
    { [today |-> <<t>>, ideas |-> <<>>, backlog |-> <<>>] :
        t \in Chains \cup Families }
    \cup { [today |-> <<>>, ideas |-> <<l>>, backlog |-> <<l, Plain>>] :
             l \in Leaves }

NextOutline ==
    \/ \E text \in OutlineTexts : EditFile(text)
    \/ get_todos
    \/ \E body \in PostBodies(ClientTrees) : update_todos(body)

SpecOutline == Init /\ [][NextOutline]_vars

-----------------------------------------------------------------------------
(* The engine left to itself: a client that only consumes, the background  *)
(* task and the clock.  asyncio runs the background task every second and  *)
(* the broadcast it awaits returns, so both of its steps are weakly fair;  *)
(* time passes.                                                            *)

NextLive ==
    \/ \E s \in SessionIds, req \in ConsumeInputs :
           consume_energy(s, req[1], req[2])
    \/ \E s \in SessionIds : regeneration_task(s)
    \/ regeneration_task_resume
    \/ AdvanceUntil(MaxTimeLive)

SpecLive ==
    /\ Init
    /\ [][NextLive]_vars
    /\ WF_vars(\E s \in SessionIds : regeneration_task(s))
    /\ WF_vars(regeneration_task_resume)
    /\ WF_vars(AdvanceUntil(MaxTimeLive))

-----------------------------------------------------------------------------
(* Claims about the energy engine *)

Sessions == DOMAIN energy_storage

\* C1: in every reachable state, every session's current_energy lies in
\* 0..max_energy, whatever consume / break / pause / resume / tick / daily
\* reset steps led there.
C1_EnergyBounds ==
    \A s \in Sessions :
        /\ 0 <= energy_storage[s].current_energy
        /\ energy_storage[s].current_energy <= energy_storage[s].max_energy

\* the upper boundary: an increment of the background task has just brought
\* a session to max_energy
C1_Witness ==
    \E s \in Sessions :
        /\ response.op = "regeneration_task"
        /\ energy_storage[s].current_energy = energy_storage[s].max_energy

\* C3: every energy precondition violation is answered with an error and
\* the state is left as the daily-reset check returned it: consume below the
\* required cost, consume on break, startBreak on break, startBreak at full
\* energy, completeBreak when not on break.
C3_ViolationsRejected ==
    [][response'.op \in {"consume", "start_break", "complete_break"} =>
        LET s == response'.session
            st == get_or_create_energy_state(s)
            md == request'.task_metadata
            rejected == /\ response'.status = 400
                        /\ response'.event = "none"
                        /\ energy_storage'[s] = st
        IN /\ ( /\ response'.op = "consume"
                /\ \/ st.is_on_break
                   \/ ~md.given /\ st.current_energy < request'.amount
                   \/ /\ md.given
                      /\ calculate_energy_cost(md).ok
                      /\ st.current_energy < calculate_energy_cost(md).cost )
              => rejected
           /\ ( /\ response'.op = "start_break"
                /\ (st.is_on_break \/ st.current_energy = st.max_energy) )
              => rejected
           /\ (response'.op = "complete_break" /\ ~st.is_on_break) => rejected
    ]_vars

\* a consume was refused for insufficient energy, a break is running, ...
C3_Witness ==
    /\ response.op = "consume"
    /\ response.status = 400
    /\ response.detail = "Insufficient energy"
    /\ \E s \in Sessions : energy_storage[s].current_energy \in 1..11

\* C5: each increment of the background task closes an interval whose
\* wall-clock length is at least REGENERATION_INTERVAL plus the seconds the
\* interval spent paused.
C5_PausedTimeNotCounted ==
    \A s \in DOMAIN regen_log :
        LET c == regen_log[s].closed
        IN c.elapsed # NoTime => c.elapsed >= REGENERATION_INTERVAL + c.paused

\* an increment happened after a pause of N > 0 seconds that was resumed
C5_Witness ==
    \E s \in DOMAIN regen_log :
        /\ regen_log[s].closed.elapsed # NoTime
        /\ regen_log[s].closed.paused > 0

\* the state the daily reset must produce from st
ResetExpectation(st) ==
    /\ st.current_energy = st.max_energy
    /\ st.is_on_break = FALSE
    /\ st.break_end_time = NoTime
    /\ st.is_regenerating = TRUE
    /\ st.regeneration_paused_at = NoTime
    /\ st.last_regeneration_time = now
    /\ st.last_reset_date = today

\* C6: whenever a request handler accesses a stored session whose
\* last_reset_date differs from today, the state it gets from
\* get_or_create_energy_state is the reset state (full energy, no break,
\* regenerating, unpaused, anchor = now, date = today) whatever the stored
\* state was, and a handler that only reads (the regeneration read) leaves
\* exactly that state stored.
C6_DailyReset ==
    [][( /\ response'.op \notin {"none", "regeneration_task"}
         /\ response'.session \in Sessions
         /\ energy_storage[response'.session].last_reset_date # today ) =>
            /\ ResetExpectation(get_or_create_energy_state(response'.session))
            /\ response'.op = "get_regeneration"
                  => energy_storage'[response'.session] =
                         get_or_create_energy_state(response'.session)
    ]_vars

\* a session that the background task had regenerated the day before is
\* reset by a read after midnight
C6_Witness ==
    \E s \in Sessions :
        /\ response.op = "get_regeneration"
        /\ today = 1
        /\ energy_storage[s].last_reset_date = 1
        /\ energy_storage[s].current_energy = 12
        /\ regen_log[s].start = now
        /\ regen_log[s].closed.elapsed # NoTime

ConsumedBelowMax(s) ==
    /\ response.op = "consume"
    /\ response.status = 200
    /\ response.session = s
    /\ energy_storage[s].current_energy < energy_storage[s].max_energy
    /\ ~energy_storage[s].is_on_break
    /\ energy_storage[s].regeneration_paused_at = NoTime

\* C4: whenever a consume leaves a session below max_energy, not on break
\* and not paused, with a full interval of clock time still ahead, the
\* background task eventually increments that session's energy.
C4_ConsumeLeadsToRegeneration ==
    \A s \in SessionIds :
        ( ConsumedBelowMax(s) /\ now + REGENERATION_INTERVAL <= MaxTimeLive )
            ~> ( response.op = "regeneration_task" /\ response.session = s )

-----------------------------------------------------------------------------
(* The outline's claims *)

\* the tasks of a list in the order of their lines, each with its depth
RECURSIVE Flatten(_, _)
Flatten(tasks, depth) ==
    IF tasks = <<>> THEN <<>>
    ELSE <<[task |-> tasks[1], depth |-> depth]>>
         \o Flatten(tasks[1].subtasks, depth + 1)
         \o Flatten(Tail(tasks), depth)

AllTasks(sections) ==
    Flatten(sections.today, 0) \o Flatten(sections.ideas, 0)
    \o Flatten(sections.backlog, 0)

HasDepth(sections, d) ==
    \E k \in DOMAIN AllTasks(sections) : AllTasks(sections)[k].depth = d

\* a tree without its ids: titles, flags, metadata, nesting and order
RECURSIVE WithoutIds(_)
WithoutIds(tasks) ==
    [k \in 1..Len(tasks) |->
        [tasks[k] EXCEPT !.id = NoId, !.parent_id = NoId,
                         !.subtasks = WithoutIds(@)]]
Semantics(sections) ==
    [today |-> WithoutIds(sections.today), ideas |-> WithoutIds(sections.ideas),
     backlog |-> WithoutIds(sections.backlog)]

IsTaskLine(line) == StartsWith(Strip(line), TaskBox)
IsHeaderLine(line) == StartsWith(Strip(line), HeaderMark)

\* C7: parsing never raises: whatever the file holds, GET /api/todos returns
\* sections.
C7_ParseNeverRaises == parsed.status \in {"none", "ok"}

\* Every task line under a header is at most one level deeper than the task
\* line before it, the first one under a header being at level 0.
RECURSIVE StepwiseFrom(_, _, _, _)
StepwiseFrom(lines, k, in_section, allowed) ==
    IF k > Len(lines) THEN TRUE
    ELSE IF IsHeaderLine(lines[k]) THEN StepwiseFrom(lines, k + 1, TRUE, 0)
    ELSE IF in_section /\ IsTaskLine(lines[k])
        THEN /\ LeadingSpaces(lines[k]) \div 2 <= allowed
             /\ StepwiseFrom(lines, k + 1, TRUE, (LeadingSpaces(lines[k]) \div 2) + 1)
    ELSE StepwiseFrom(lines, k + 1, in_section, allowed)
NestedStepwise(text) == StepwiseFrom(SplitLines(text), 1, FALSE, 0)

\* every task of the parsed tree is as deep as floor(leading spaces / 2) of
\* the line it came from (its id is that line's number)
ParsedDepthsMatch ==
    \A k \in DOMAIN AllTasks(parsed.sections) :
        LET e == AllTasks(parsed.sections)[k]
        IN e.depth = LeadingSpaces(SplitLines(parsed.text)[e.task.id + 1]) \div 2

\* the task lines of the file written from `saved` are, in order, the tasks
\* of `saved`, each behind 2 * depth spaces
SavedIndentsMatch ==
    LET lines == SelectSeq(SplitLines(todo_file.content), IsTaskLine)
        tasks == AllTasks(saved.sections)
    IN /\ Len(lines) = Len(tasks)
       /\ \A k \in DOMAIN tasks : LeadingSpaces(lines[k]) = 2 * tasks[k].depth

ValidTask(task) ==
    /\ \A k \in DOMAIN MetadataKinds :
           \A i \in DOMAIN task.title : MatchLen(MetadataKinds[k], task.title, i) = 0
    /\ task.friction = NoFriction \/ task.friction \in 1..5
ValidTree(sections) ==
    \A k \in DOMAIN AllTasks(sections) : ValidTask(AllTasks(sections)[k].task)

\* C2: the file written from a valid tree a client posted parses to that
\* tree: same titles, flags, metadata, nesting and order (ids aside).
C2_RoundTrip ==
    ( saved.source = "client" /\ ValidTree(saved.sections) /\ parsed.status # "none" )
        => /\ parsed.status = "ok"
           /\ Semantics(parsed.sections) = Semantics(saved.sections)

\* a well-formed line: blank, the header of one of the three sections, or a
\* check box behind an even number of spaces, friction tokens in 1..5
WellFormedLine(line) ==
    \/ Strip(line) = <<>>
    \/ \E k \in DOMAIN SectionNames : line = Header(SectionNames[k])
    \/ LET n == LeadingSpaces(line)
           rest == From(line, n)
       IN /\ n % 2 = 0
          /\ \A i \in 1..n : line[i] = " "
          /\ \E done \in BOOLEAN : StartsWith(rest, TaskText(0, done, <<>>))
          /\ \A i \in DOMAIN rest :
                 (rest[i] = "%" /\ DigitsAt(rest, i + 1, 1))
                     => DigitVal(rest[i + 1]) \in 1..5

\* a well-formed text: well-formed lines, the first a header, the task lines
\* of a section indented two spaces per level
WellFormed(text) ==
    LET lines == SplitLines(text)
    IN /\ \A k \in DOMAIN lines : WellFormedLine(lines[k])
       /\ IsHeaderLine(lines[1])
       /\ NestedStepwise(text)

\* C9: when the sections parsed from a well-formed text are written back,
\* the file parses to the same sections: titles, flags, metadata, nesting
\* and order.
C9_ParseSerializeParse ==
    ( saved.source = "reparsed" /\ WellFormed(saved.text) /\ parsed.status # "none" )
        => /\ parsed.status = "ok"
           /\ Semantics(parsed.sections) = Semantics(saved.sections)

-----------------------------------------------------------------------------
(* Claims about the cost of a task and about breaks *)

\* clamp(1, 12, max(1, floor(minutes / 30)) + (friction - 2)) for the token
\* <n><unit>
ClaimedCost(n, unit, friction) ==
    LET minutes == IF unit = "m" THEN n ELSE IF unit = "h" THEN n * 60 ELSE n * 480
        raw == Max(1, minutes \div 30) + (friction - 2)
    IN IF raw < 1 THEN 1 ELSE IF raw > 12 THEN 12 ELSE raw

\* the number an effort token was written from
EffortNumberOf(effort) ==
    CHOOSE n \in EffortNumbers : Str(n) = ButLast(effort)

\* C11: for every effort token <n>m, <n>h, <n>d and every friction,
\* calculate_energy_cost returns clamp(1, 12, max(1, floor(minutes/30)) +
\* (friction - 2)), a number in 1..12, and a consume that succeeds takes and
\* reports that cost; (1h,2) = 2, (30m,5) = 4, (2d,2) = 12, (5m,1) = 1.
C11_CostFormula ==
    [][( response'.op = "consume" /\ request'.task_metadata \in CostInputs ) =>
        LET md == request'.task_metadata
            cost == ClaimedCost(EffortNumberOf(md.effort), LastChar(md.effort),
                                md.friction)
        IN /\ calculate_energy_cost(md) = [ok |-> TRUE, cost |-> cost]
           /\ cost \in 1..12
           /\ response'.status = 200 => response'.value = cost
           /\ md = Metadata(<<"1", "h">>, 2) => calculate_energy_cost(md).cost = 2
           /\ md = Metadata(<<"3", "0", "m">>, 5) => calculate_energy_cost(md).cost = 4
           /\ md = Metadata(<<"2", "d">>, 2) => calculate_energy_cost(md).cost = 12
           /\ md = Metadata(<<"5", "m">>, 1) => calculate_energy_cost(md).cost = 1
    ]_vars

\* a consume of a (2d, friction 2) task took the capped cost 12
C11_Witness ==
    /\ response.op = "consume"
    /\ response.status = 200
    /\ request.task_metadata = Metadata(<<"2", "d">>, 2)
    /\ response.value = 12
    /\ \E s \in Sessions : energy_storage[s].current_energy = 0

\* C12: a successful start_break clamps the requested minutes into 5..60,
\* sets is_on_break and break_end_time = now + the clamped duration, and
\* reports energy_to_restore = min(deficit, max(1, floor(duration / 15)));
\* 30 minutes with a deficit of at least 2 gives 2.
C12_StartBreak ==
    [][( response'.op = "start_break" /\ response'.status = 200 ) =>
        LET s == response'.session
            st == get_or_create_energy_state(s)
            asked == request'.duration_minutes
            minutes == IF asked < 5 THEN 5 ELSE IF asked > 60 THEN 60 ELSE asked
            deficit == st.max_energy - st.current_energy
        IN /\ energy_storage'[s].is_on_break
           /\ energy_storage'[s].break_end_time = now + minutes * 60
           /\ energy_storage'[s].current_energy = st.current_energy
           /\ response'.value = Min(deficit, Max(1, minutes \div 15))
           /\ (asked = 30 /\ deficit >= 2) => response'.value = 2
    ]_vars

\* a break asked for 120 minutes with a deficit of 5 runs 60 minutes and
\* promises 4
C12_Witness ==
    /\ response.op = "start_break"
    /\ response.status = 200
    /\ request.duration_minutes = 120
    /\ response.value = 4
    /\ \E s \in Sessions :
           /\ energy_storage[s].is_on_break
           /\ energy_storage[s].break_end_time = now + 3600
           /\ energy_storage[s].current_energy = 7

\* C13: a complete_break no later than the break's scheduled end restores
\* min(deficit, max(1, floor(elapsed minutes / 15))), the elapsed time being
\* the time since the break started.
C13_RestoresElapsed ==
    [][( response'.op = "complete_break" /\ response'.status = 200
         /\ now <= energy_storage[response'.session].break_end_time ) =>
        LET s == response'.session
            st == get_or_create_energy_state(s)
            elapsed == now - regen_log[s].break_start
        IN response'.value = Min(st.max_energy - st.current_energy,
                                 Max(1, (elapsed \div 60) \div 15))
    ]_vars

\* C14: every successful complete_break restores r with 1 <= r <= deficit
\* (the deficit before completion): energy strictly increases, does not
\* exceed max_energy, and the session is no longer on break.
C14_RestoreWithinDeficit ==
    [][( response'.op = "complete_break" /\ response'.status = 200 ) =>
        LET s == response'.session
            st == get_or_create_energy_state(s)
            r == response'.value
        IN /\ 1 <= r
           /\ r <= st.max_energy - st.current_energy
           /\ energy_storage'[s].current_energy = st.current_energy + r
           /\ energy_storage'[s].current_energy > st.current_energy
           /\ energy_storage'[s].current_energy <= st.max_energy
           /\ ~energy_storage'[s].is_on_break
    ]_vars

\* a break was completed the moment it started, and one point came back
C14_Witness ==
    /\ response.op = "complete_break"
    /\ response.status = 200
    /\ response.value = 1
    /\ \E s \in Sessions :
           /\ ~energy_storage[s].is_on_break
           /\ energy_storage[s].current_energy = 8
           /\ now = 0

-----------------------------------------------------------------------------
(* Claims about the regeneration posture, locking and sessions             *)

\* the four postures, over the fields of EnergyState (lines 52-62)
OnBreak(st) == st.is_on_break

Regenerating(st) ==
    /\ st.current_energy < st.max_energy
    /\ st.is_regenerating
    /\ st.regeneration_paused_at = NoTime
    /\ ~st.is_on_break

Paused(st) ==
    /\ st.regeneration_paused_at # NoTime
    /\ ~st.is_on_break

IdleAtMax(st) ==
    /\ st.current_energy = st.max_energy
    /\ ~st.is_regenerating

Postures(st) ==
    {p \in {"on_break", "regenerating", "paused", "idle_at_max"} :
        \/ p = "on_break" /\ OnBreak(st)
        \/ p = "regenerating" /\ Regenerating(st)
        \/ p = "paused" /\ Paused(st)
        \/ p = "idle_at_max" /\ IdleAtMax(st)}

\* the claim with "not regenerating" read as the is_regenerating flag being
\* off: exactly one of on break, regenerating, paused and idle-at-max holds
\* of every session
ExactlyOnePosture ==
    \A s \in Sessions : Cardinality(Postures(energy_storage[s])) = 1

\* C15: in every reachable state one of the postures on break, regenerating,
\* paused, idle-at-max holds of every session.  This is the part of "exactly
\* one holds" that does not depend on how idle-at-max treats the
\* is_regenerating flag: every state at max_energy is let count as idle.
C15_SomePosture ==
    \A s \in Sessions :
        LET st == energy_storage[s]
        IN \/ Postures(st) # {}
           \/ st.current_energy = st.max_energy

\* the step writes the EnergyState of session s: creates it or changes a field
WritesState(s) ==
    /\ s \in DOMAIN energy_storage'
    /\ \/ s \notin DOMAIN energy_storage
       \/ energy_storage'[s] # energy_storage[s]

\* the step runs inside "with regeneration_locks.get(session_id, ...)" of
\* line 749, the only place where a lock of regeneration_locks is acquired:
\* the tick's increment, and the at-max check after its broadcast
HoldsLock(s) ==
    \/ response'.op = "regeneration_task" /\ response'.session = s
    \/ tick_pending = s /\ tick_pending' = "none"

\* C16: every step that writes a session's EnergyState, a request handler's
\* (with its daily-reset check) or the background tick's, holds that
\* session's lock.
C16_WritesHoldLock ==
    [][\A s \in SessionIds : WritesState(s) => HoldsLock(s)]_vars

\* the writes of the background tick alone are made under the lock
TickWritesHoldLock ==
    [][\A s \in SessionIds :
          (WritesState(s) /\ response'.op \in {"regeneration_task", "none"})
              => HoldsLock(s)]_vars

\* the session a step acts on: the one named in the request, or the one the
\* background tick is in the middle of
ActedOn ==
    IF response'.op # "none" THEN {response'.session}
    ELSE IF tick_pending # "none" THEN {tick_pending}
    ELSE {}

\* C17: each session id has an EnergyState of its own, created on the first
\* reference to the id and at full energy (less what that first request
\* consumed); a handler or tick step applied to one session leaves every
\* field of every other session's state unchanged.
C17_SessionsIndependent ==
    [][/\ DOMAIN energy_storage' = DOMAIN energy_storage \cup
               (IF response'.op = "none" THEN {} ELSE ActedOn)
       /\ \A s \in DOMAIN energy_storage' :
              /\ s \notin DOMAIN energy_storage =>
                     /\ energy_storage'[s].max_energy = MAX_ENERGY
                     /\ energy_storage'[s].current_energy = MAX_ENERGY -
                            (IF response'.op = "consume" /\ response'.status = 200
                                 THEN response'.value ELSE 0)
              /\ (s \in DOMAIN energy_storage /\ s \notin ActedOn) =>
                     energy_storage'[s] = energy_storage[s]
    ]_vars

\* user2 was first referenced, by a consume of 5, after user1 had spent 3
\* and gone on a break: user2 is at 7/12, user1 still at 9/12 and on break
C17_Witness ==
    /\ response.op = "consume"
    /\ response.session = "user2"
    /\ response.status = 200
    /\ DOMAIN energy_storage = {"user1", "user2"}
    /\ energy_storage["user2"].current_energy = 7
    /\ energy_storage["user1"].current_energy = 9
    /\ energy_storage["user1"].is_on_break
    /\ ~energy_storage["user2"].is_on_break

-----------------------------------------------------------------------------
(* Claims about the sections and the tree of the parsed outline, and about *)
(* backups                                                                 *)

\* the line is the header of the section `name` (lines 249-250)
HeaderFor(line, name) ==
    /\ IsHeaderLine(line)
    /\ Lower(From(Strip(line), 2)) = SectionText(name)

\* some task line of the file stands under a header of the section `name`
TaskLinesUnder(lines, name) ==
    \E i \in DOMAIN lines, j \in DOMAIN lines :
        /\ i < j
        /\ HeaderFor(lines[i], name)
        /\ IsTaskLine(lines[j])
        /\ \A k \in (i + 1)..(j - 1) : ~IsHeaderLine(lines[k])

\* C18: what parse_markdown returns always has the three sections today,
\* ideas and backlog, each a list, and empty when the file has no header of
\* that name or no task line under it.
C18_SectionsPresent ==
    parsed.status = "ok" =>
        /\ DOMAIN parsed.sections = {"today", "ideas", "backlog"}
        /\ \A name \in DOMAIN parsed.sections :
               /\ DOMAIN parsed.sections[name] = 1..Len(parsed.sections[name])
               /\ ~TaskLinesUnder(SplitLines(parsed.text), name)
                      => parsed.sections[name] = <<>>

\* a file with tasks under "# Ideas" and "# backlog" and no "# today" was
\* parsed: today is there, and empty
C18_Witness ==
    /\ parsed.status = "ok"
    /\ response.op = "get_todos"
    /\ parsed.text # <<>>
    /\ ~TaskLinesUnder(SplitLines(parsed.text), "today")
    /\ parsed.sections.today = <<>>
    /\ Len(parsed.sections.ideas) = 1
    /\ Len(parsed.sections.backlog) = 1

\* every task of the list names `parent` as its parent, and every subtask
\* below names the task whose subtasks list holds it
RECURSIVE ParentIdsMatch(_, _)
ParentIdsMatch(tasks, parent) ==
    \A k \in DOMAIN tasks :
        /\ tasks[k].parent_id = parent
        /\ ParentIdsMatch(tasks[k].subtasks, tasks[k].id)

\* "# today", an unindented task line and two task lines indented 2 spaces
FamilyText ==
    JoinLines(<<Header("today"), TaskText(0, FALSE, <<"a">>),
                TaskText(2, FALSE, <<"b">>), TaskText(2, FALSE, <<"c">>)>>)

\* C19: in every parsed tree each subtask's parent_id is the id of the task
\* whose subtasks list contains it and each top-level task has no parent_id;
\* one unindented task followed by two 2-space-indented task lines under
\* "# today" parses into one top-level task with exactly 2 subtasks.
C19_ParentIds ==
    parsed.status = "ok" =>
        /\ \A name \in DOMAIN parsed.sections :
               ParentIdsMatch(parsed.sections[name], NoId)
        /\ parsed.text = FamilyText =>
               /\ Len(parsed.sections.today) = 1
               /\ Len(parsed.sections.today[1].subtasks) = 2
               /\ \A k \in 1..2 :
                      parsed.sections.today[1].subtasks[k].parent_id =
                          parsed.sections.today[1].id

\* the file of one task and two indented task lines was parsed
C19_Witness ==
    /\ parsed.status = "ok"
    /\ response.op = "get_todos"
    /\ parsed.text = FamilyText
    /\ Len(parsed.sections.today) = 1
    /\ parsed.sections.today[1].id = 1
    /\ parsed.sections.today[1].parent_id = NoId
    /\ Len(parsed.sections.today[1].subtasks) = 2
    /\ parsed.sections.today[1].subtasks[2].parent_id = 1

\* a client that reads the outline and posts it back, or posts an empty
\* outline, while the clock runs
BackupTrees == {EmptySections}

NextBackup ==
    \/ EditFile(FamilyText)
    \/ get_todos
    \/ \E body \in PostBodies(BackupTrees) : update_todos(body)
    \/ AdvanceUntil(MaxTime)

SpecBackup == Init /\ [][NextBackup]_vars

\* The step is a save over an existing file, and so was the save before it
\* (one of parsed sections: the file it overwrote held saved.text, the text
\* that was parsed); the file was not touched in between, and the two
\* overwritten contents differ.
SecondOverwrite ==
    /\ response'.op = "update_todos"
    /\ todo_file.exists
    /\ saved.source = "reparsed"
    /\ saved.text # <<>>
    /\ saved.text # todo_file.content

\* C20: after any sequence of saves, the content every overwriting save
\* found in the file is still in some backup file, two saves within one
\* second included.  Each file of BACKUP_DIR holds one content (line 315
\* rewrites it whole), so after two saves that overwrote different contents
\* the directory has at least two files.
C20_BackupPerOverwrite ==
    [][SecondOverwrite => Cardinality(backups') >= 2]_vars

-----------------------------------------------------------------------------
(* Claims about metadata without effort or friction, and about XP          *)

\* the metadata of a request lacks effort or lacks friction
LacksEffortOrFriction(md) == md.sent /\ (md.effort = <<>> \/ ~md.has_friction)

\* C21: computing a cost from task metadata that lacks effort or lacks
\* friction is an error and never a defaulted cost; a consume request that
\* carries such metadata fails, and does not fall back to its amount: the
\* energy stays as it was.
C21_NoFallback ==
    [][( response'.op = "consume"
         /\ LacksEffortOrFriction(request'.task_metadata) ) =>
        LET s == response'.session
        IN /\ ~calculate_energy_cost(request'.task_metadata).ok
           /\ response'.status # 200
           /\ energy_storage'[s].current_energy =
                  get_or_create_energy_state(s).current_energy
    ]_vars

\* the same for the requests whose metadata is a dict with some key
C21_NoFallbackNonEmpty ==
    [][( response'.op = "consume" /\ request'.task_metadata.given
         /\ LacksEffortOrFriction(request'.task_metadata) ) =>
        LET s == response'.session
        IN /\ ~calculate_energy_cost(request'.task_metadata).ok
           /\ response'.status # 200
           /\ energy_storage'[s].current_energy =
                  get_or_create_energy_state(s).current_energy
    ]_vars

\* round(100 * sqrt(1 + minutes(effort)/60) * friction), times 1.5 and
\* truncated when the task has subtasks and all are completed
ClaimedXp(effort, friction, subtasks) ==
    LET minutes == IF effort = <<>> THEN 30 ELSE EffortMinutes(effort)
        base == RoundedXp(minutes, friction)
    IN IF subtasks # <<>> /\ (\A k \in DOMAIN subtasks : subtasks[k])
           THEN (3 * base) \div 2 ELSE base

\* C22 as stated: effort defaults to 30m and friction to 2 when absent.
C22_XpFormula ==
    xp.called =>
        xp.value = ClaimedXp(xp.effort,
                             IF xp.friction = NoFriction THEN 2 ELSE xp.friction,
                             xp.subtasks)

\* C22 (amended): calculate_xp returns round(100 * sqrt(1 + minutes/60) *
\* friction), effort defaulting to 30m when absent and friction to 2 when
\* absent or 0, times 1.5 and truncated when the task has at least one
\* subtask and all its subtasks are completed; 1h, friction 3, no subtasks
\* gives 424.
C22_XpFormulaFrictionZero ==
    xp.called =>
        /\ xp.value = ClaimedXp(xp.effort,
                                IF xp.friction \in {NoFriction, 0} THEN 2
                                ELSE xp.friction,
                                xp.subtasks)
        /\ (xp.effort = <<"1", "h">> /\ xp.friction = 3 /\ xp.subtasks = <<>>)
               => xp.value = 424

\* a task of 1h and friction 3 with two completed subtasks: 636 = int(424 * 1.5)
C22_Witness ==
    /\ xp.called
    /\ xp.effort = <<"1", "h">>
    /\ xp.friction = 3
    /\ xp.subtasks = <<TRUE, TRUE>>
    /\ xp.value = 636

-----------------------------------------------------------------------------
(* Claims about the regeneration read, the tick, the daily reset, pause    *)
(* and resume                                                              *)

\* C23: the regeneration read reports time remaining 0 and is_regenerating
\* false whenever the session is on break, at max energy or not
\* regenerating; otherwise max(0, INTERVAL - elapsed), the elapsed time
\* running up to the pause instant while paused: as time passes during a
\* pause, what the read would report does not change.
C23_RegenerationRead ==
    [][/\ response'.op = "get_regeneration" =>
            LET st == energy_storage'[response'.session]
                elapsed == IF st.regeneration_paused_at # NoTime
                               THEN st.regeneration_paused_at - st.last_regeneration_time
                               ELSE now - st.last_regeneration_time
            IN IF st.is_on_break \/ st.current_energy >= st.max_energy
                  \/ ~st.is_regenerating
                   THEN response'.value = 0 /\ response'.detail = ""
                   ELSE response'.value =
                            IF REGENERATION_INTERVAL - elapsed > 0
                                THEN REGENERATION_INTERVAL - elapsed ELSE 0
       /\ \A s \in Sessions :
              ( /\ energy_storage[s].regeneration_paused_at # NoTime
                /\ energy_storage'[s] = energy_storage[s] )
              => calculate_regeneration_state(energy_storage[s])'
                     = calculate_regeneration_state(energy_storage[s])
    ]_vars

\* paused one clock step after the last regeneration, read a clock step
\* later or more: the time remaining is still that of the pause instant
C23_Witness ==
    /\ response.op = "get_regeneration"
    /\ response.value = REGENERATION_INTERVAL - TimeStep
    /\ now >= 2 * TimeStep
    /\ \E s \in Sessions :
           /\ energy_storage[s].regeneration_paused_at = TimeStep
           /\ energy_storage[s].last_regeneration_time = 0
           /\ ~energy_storage[s].is_on_break
           /\ energy_storage[s].current_energy < energy_storage[s].max_energy

\* C24: the regeneration read made right after a successful consume that
\* left the energy below max, the session neither on break nor paused,
\* reports is_regenerating true and a time remaining t with
\* 0 < t <= REGENERATION_INTERVAL, whatever happened before.
C24_RegeneratingAfterConsume ==
    [][( /\ response.op = "consume" /\ response.status = 200
         /\ response'.op = "get_regeneration"
         /\ response'.session = response.session
         /\ LET st == energy_storage'[response'.session]
            IN /\ st.current_energy < st.max_energy
               /\ ~st.is_on_break
               /\ st.regeneration_paused_at = NoTime )
        => /\ response'.detail = "regenerating"
           /\ 0 < response'.value
           /\ response'.value <= REGENERATION_INTERVAL
    ]_vars

\* the step is the at-max check of the tick of session s (lines 771-773)
TickChecks(s) == tick_pending = s /\ tick_pending' = "none"

C26_IncrementsApart ==
    [][\A s \in Sessions :
          ( /\ response'.op = "regeneration_task" /\ response'.session = s
            /\ regen_log[s].incremented_at # NoTime )
          => now - regen_log[s].incremented_at >= REGENERATION_INTERVAL
    ]_vars

\* a second increment, made after a pause and a resume since the first
C26_Witness ==
    /\ response.op = "regeneration_task"
    /\ \E s \in Sessions :
           /\ regen_log[s].incremented_at = now
           /\ regen_log[s].closed.gap # NoTime
           /\ regen_log[s].closed.paused > 0

\* C27: no operation, the background tick included, reads or changes a
\* session's EnergyState whose last_reset_date differs from today without
\* applying the daily reset first: the state a step leaves behind for the
\* session it acted on is of today.
C27_ResetBeforeUse ==
    [][\A s \in ActedOn \cap DOMAIN energy_storage' :
          energy_storage'[s].last_reset_date = today
    ]_vars

\* the request handlers do: each goes through get_or_create_energy_state
C27_HandlersResetFirst ==
    [][\A s \in ActedOn \cap DOMAIN energy_storage' :
          response'.op \notin {"none", "regeneration_task"}
              => energy_storage'[s].last_reset_date = today
    ]_vars

\* C28: after a successful complete_break that leaves the energy below max,
\* is_regenerating is true, the pause marker is null and
\* last_regeneration_time is now, so that a whole REGENERATION_INTERVAL
\* remains before the next increment, whatever progress had been made before
\* the break.
C28_FullIntervalAfterBreak ==
    [][\A s \in Sessions :
          ( /\ response'.op = "complete_break" /\ response'.session = s
            /\ response'.status = 200
            /\ energy_storage'[s].current_energy < energy_storage'[s].max_energy )
          => /\ energy_storage'[s].is_regenerating
             /\ energy_storage'[s].regeneration_paused_at = NoTime
             /\ energy_storage'[s].last_regeneration_time = now
             /\ ~energy_storage'[s].is_on_break
             /\ calculate_regeneration_state(energy_storage[s])' =
                    [is_regenerating |-> TRUE,
                     regeneration_time_remaining |-> REGENERATION_INTERVAL]
    ]_vars

\* a break completed half an hour or more into the run, energy still short
\* of max: the interval starts over
C28_Witness ==
    /\ response.op = "complete_break" /\ response.status = 200
    /\ now >= 2 * TimeStep
    /\ \E s \in Sessions :
           /\ response.session = s
           /\ energy_storage[s].current_energy < energy_storage[s].max_energy
           /\ energy_storage[s].last_regeneration_time = now
           /\ calculate_regeneration_state(energy_storage[s]).regeneration_time_remaining
                  = REGENERATION_INTERVAL

\* C29: pause_regeneration changes the state, recording
\* regeneration_paused_at = now and nothing else, only when the session is
\* regenerating, has no pause marker and is not on break; in every other
\* state it leaves the whole EnergyState as it was and broadcasts no event.
\* resume_regeneration leaves the state as it was and broadcasts nothing when
\* no pause marker is set or the session is on break.  The state is the one
\* the handler gets from get_or_create_energy_state: the stored one, when it
\* is of today.
C29_PauseResumeFrame ==
    [][\A s \in SessionIds :
          LET st == get_or_create_energy_state(s)
          IN /\ ( /\ response'.op \in {"pause", "resume"} /\ response'.session = s
                  /\ s \in DOMAIN energy_storage
                  /\ energy_storage[s].last_reset_date = today )
                => st = energy_storage[s]
             /\ ( response'.op = "pause" /\ response'.session = s )
                => IF st.is_regenerating /\ st.regeneration_paused_at = NoTime
                      /\ ~st.is_on_break
                     THEN /\ energy_storage'[s] =
                                 [st EXCEPT !.regeneration_paused_at = now]
                          /\ response'.event = "regeneration_paused"
                     ELSE /\ energy_storage'[s] = st
                          /\ response'.event = "none"
             /\ ( /\ response'.op = "resume" /\ response'.session = s
                  /\ (st.regeneration_paused_at = NoTime \/ st.is_on_break) )
                => /\ energy_storage'[s] = st
                   /\ response'.event = "none"
    ]_vars

\* a pause requested of a session paused earlier: the marker stays where it was
C29_Witness ==
    /\ response.op = "pause" /\ response.event = "none"
    /\ \E s \in Sessions :
           /\ response.session = s
           /\ ~energy_storage[s].is_on_break
           /\ energy_storage[s].is_regenerating
           /\ energy_storage[s].regeneration_paused_at # NoTime
           /\ energy_storage[s].regeneration_paused_at < now

\* C30: an effective resume_regeneration moves last_regeneration_time
\* forward by exactly the time spent paused and clears the pause marker, so
\* that the time remaining it reports equals the time remaining at the
\* instant of the pause.
C30_ResumePreservesRemaining ==
    [][\A s \in Sessions :
          ( /\ response'.op = "resume" /\ response'.session = s
            /\ response'.event = "regeneration_resumed" )
          => /\ energy_storage'[s].last_regeneration_time =
                    energy_storage[s].last_regeneration_time
                        + (now - energy_storage[s].regeneration_paused_at)
             /\ energy_storage'[s].regeneration_paused_at = NoTime
             /\ response'.value = regen_log[s].at_pause.remaining
    ]_vars

\* C30, as the code has it: the shift and the cleared marker as above; the
\* time remaining reported after the resume is 0 at max energy, and
\* otherwise REGENERATION_INTERVAL less the progress made up to the pause,
\* which is the time remaining at the instant of the pause when the energy
\* was below max then.
C30_ResumePreservesProgress ==
    [][\A s \in Sessions :
          ( /\ response'.op = "resume" /\ response'.session = s
            /\ response'.event = "regeneration_resumed" )
          => /\ energy_storage'[s].last_regeneration_time =
                    energy_storage[s].last_regeneration_time
                        + (now - energy_storage[s].regeneration_paused_at)
             /\ energy_storage'[s].regeneration_paused_at = NoTime
             /\ energy_storage'[s].is_regenerating
             /\ regen_log[s].at_pause # NoPause
             /\ IF energy_storage'[s].current_energy >= energy_storage'[s].max_energy
                  THEN response'.value = 0
                  ELSE /\ response'.value =
                             Max(0, REGENERATION_INTERVAL
                                      - (energy_storage[s].regeneration_paused_at
                                           - energy_storage[s].last_regeneration_time))
                       /\ regen_log[s].at_pause.below_max
                              => response'.value = regen_log[s].at_pause.remaining
    ]_vars

\* paused with half of the interval left, resumed later: half of it is left
C30_Witness ==
    /\ response.op = "resume" /\ response.event = "regeneration_resumed"
    /\ response.value = REGENERATION_INTERVAL - TimeStep
    /\ \E s \in Sessions :
           /\ response.session = s
           /\ energy_storage[s].current_energy < energy_storage[s].max_energy
           /\ energy_storage[s].last_regeneration_time > 0
           /\ now - energy_storage[s].last_regeneration_time = TimeStep

\* C31: while a session is on break its current_energy does not change: a
\* consume is rejected and the tick never regenerates, whatever the pause
\* state was before the break; the energy changes only on a step that ends
\* the break or applies the daily reset (which ends it too).
C31_NoChangeOnBreak ==
    [][\A s \in Sessions :
          energy_storage[s].is_on_break
          => /\ energy_storage'[s].current_energy # energy_storage[s].current_energy
                  => ( /\ ~energy_storage'[s].is_on_break
                       /\ \/ response'.event = "energy_restored"
                          \/ NeedsReset(energy_storage[s]) )
             /\ ~(response'.op = "regeneration_task" /\ response'.session = s)
             /\ ( /\ response'.op = "consume" /\ response'.session = s
                  /\ ~NeedsReset(energy_storage[s]) )
                => /\ response'.status = 400
                   /\ response'.detail = "Cannot consume energy while on break"
                   /\ energy_storage'[s] = energy_storage[s]
    ]_vars

\* a consume rejected during a break that began while the session was paused
C31_Witness ==
    /\ response.op = "consume" /\ response.status = 400
    /\ \E s \in Sessions :
           /\ response.session = s
           /\ energy_storage[s].is_on_break
           /\ energy_storage[s].regeneration_paused_at # NoTime
           /\ energy_storage[s].regeneration_paused_at < regen_log[s].break_start

\* C32: in every reachable state, break_end_time is set if and only if
\* is_on_break is true.
C32_BreakEndIffOnBreak ==
    \A s \in Sessions :
        (energy_storage[s].break_end_time # NoTime) <=> energy_storage[s].is_on_break

\* a break that an energy read found expired: both fields cleared
C32_Witness ==
    /\ response.op = "get_energy" /\ response.event = "energy_restored"
    /\ \E s \in Sessions :
           /\ response.session = s
           /\ ~energy_storage[s].is_on_break
           /\ energy_storage[s].break_end_time = NoTime

\* C38: in every reachable state, is_on_break implies
\* current_energy < max_energy.
C38_OnBreakBelowMax ==
    \A s \in Sessions :
        energy_storage[s].is_on_break
            => energy_storage[s].current_energy < energy_storage[s].max_energy

\* on break one point short of max, the tick having regenerated before
C38_Witness ==
    \E s \in Sessions :
        /\ energy_storage[s].is_on_break
        /\ energy_storage[s].current_energy = energy_storage[s].max_energy - 1
        /\ regen_log[s].incremented_at # NoTime

\* C39: in every reachable state last_regeneration_time <= now and, when a
\* pause marker is set, last_regeneration_time <= regeneration_paused_at
\* <= now; hence the regeneration time remaining that is reported lies in
\* 0..REGENERATION_INTERVAL.
C39_AnchorsOrdered ==
    \A s \in Sessions :
        LET st == energy_storage[s]
        IN /\ st.last_regeneration_time <= now
           /\ st.regeneration_paused_at # NoTime
                 => /\ st.last_regeneration_time <= st.regeneration_paused_at
                    /\ st.regeneration_paused_at <= now
           /\ calculate_regeneration_state(st).regeneration_time_remaining
                 \in 0..REGENERATION_INTERVAL

\* paused some time after the last anchor, some time ago
C39_Witness ==
    \E s \in Sessions :
        /\ energy_storage[s].regeneration_paused_at # NoTime
        /\ energy_storage[s].last_regeneration_time > 0
        /\ energy_storage[s].last_regeneration_time
               < energy_storage[s].regeneration_paused_at
        /\ energy_storage[s].regeneration_paused_at < now

\* the state of today that the handler of the step found: the stored one,
\* or on a first reference or a new day the state at full energy
FoundState(s) ==
    IF s \in DOMAIN energy_storage /\ energy_storage[s].last_reset_date = today
        THEN energy_storage[s]
    ELSE [current_energy |-> MAX_ENERGY, max_energy |-> MAX_ENERGY,
          is_on_break |-> FALSE, break_end_time |-> NoTime,
          last_reset_date |-> today, last_regeneration_time |-> now,
          is_regenerating |-> TRUE, regeneration_paused_at |-> NoTime]

\* C34: a rejected energy operation (consume on break, with insufficient
\* energy or with incomplete metadata, start_break at full energy or on
\* break, complete_break off break) leaves every field of the session's
\* EnergyState as it was after the daily-reset check and broadcasts no
\* event; and these requests are rejected.
C34_RejectedLeavesState ==
    [][\A s \in SessionIds :
          response'.session = s
          => /\ ( /\ response'.op \in {"consume", "start_break", "complete_break"}
                  /\ response'.status # 200 )
                => /\ energy_storage'[s] = FoundState(s)
                   /\ response'.event = "none"
             /\ ( /\ response'.op = "consume"
                  /\ \/ FoundState(s).is_on_break
                     \/ /\ ~request'.task_metadata.given
                        /\ FoundState(s).current_energy < request'.amount
                     \/ /\ request'.task_metadata.given
                        /\ \/ request'.task_metadata.effort = <<>>
                           \/ ~request'.task_metadata.has_friction )
                => response'.status # 200
             /\ ( /\ response'.op = "start_break"
                  /\ \/ FoundState(s).current_energy >= FoundState(s).max_energy
                     \/ FoundState(s).is_on_break )
                => response'.status = 400
             /\ ( response'.op = "complete_break" /\ ~FoundState(s).is_on_break )
                => response'.status = 400
    ]_vars

\* a consume whose metadata lacks the friction, rejected on a new day: the
\* state is the one the daily reset left
C34_Witness ==
    /\ response.op = "consume" /\ response.status # 200
    /\ request.task_metadata.given /\ ~request.task_metadata.has_friction
    /\ today > 0
    /\ \E s \in Sessions :
           /\ response.session = s
           /\ energy_storage[s].last_reset_date = today
           /\ energy_storage[s].last_regeneration_time = now
           /\ energy_storage[s].current_energy = energy_storage[s].max_energy
           /\ regen_log[s].closed.elapsed # NoTime

\* C35: when a break has run to its scheduled end and an energy read
\* processes its expiry, the energy restored is the energy_to_restore that
\* start_break announced for the break: min(deficit, max(1, duration div 15)),
\* the duration in minutes being that of the break.
C35_ExpiryRestoresAnnounced ==
    [][( response'.op = "get_energy" /\ response'.event = "energy_restored" ) =>
        LET s == response'.session
            st == get_or_create_energy_state(s)
            duration_minutes == (st.break_end_time - regen_log[s].break_start) \div 60
        IN /\ response'.value = Min(st.max_energy - st.current_energy,
                                    Max(1, duration_minutes \div 15))
           /\ energy_storage'[s].current_energy =
                  st.current_energy + Min(st.max_energy - st.current_energy,
                                          Max(1, duration_minutes \div 15))
    ]_vars

\* C36: once now >= break_end_time the session is no longer treated as on
\* break by any operation: a consume with sufficient energy issued after the
\* scheduled end is not rejected as on break, even with no energy read in
\* between.
C36_ExpiredBreakNotEnforced ==
    [][\A s \in Sessions :
          ( /\ response'.op = "consume" /\ response'.session = s
            /\ ~NeedsReset(energy_storage[s])
            /\ energy_storage[s].is_on_break
            /\ now >= energy_storage[s].break_end_time
            /\ ~request'.task_metadata.given
            /\ request'.amount <= energy_storage[s].current_energy )
          => /\ response'.status = 200
             /\ response'.detail # "Cannot consume energy while on break"
    ]_vars

\* C37: a pause marker recorded by start_break does not outlive the break:
\* after the break has ended, by complete_break (also when the completion
\* brings the energy to max) or by expiry on an energy read,
\* regeneration_paused_at is null.  (No other operation of this client sets
\* a marker.)
C37_MarkerEndsWithBreak ==
    [][\A s \in Sessions :
          ( /\ response'.op \in {"complete_break", "get_energy"}
            /\ response'.session = s
            /\ response'.event = "energy_restored" )
          => energy_storage'[s].regeneration_paused_at = NoTime
    ]_vars

\* the part that holds: a completion that leaves the energy below max
C37_MarkerClearedBelowMax ==
    [][\A s \in Sessions :
          ( /\ response'.op = "complete_break" /\ response'.session = s
            /\ response'.event = "energy_restored"
            /\ energy_storage'[s].current_energy < energy_storage'[s].max_energy )
          => energy_storage'[s].regeneration_paused_at = NoTime
    ]_vars

\* the number of the nearest header line before line j, 0 when there is none
HeaderAbove(lines, j) ==
    IF \E i \in 1..(j - 1) : IsHeaderLine(lines[i])
        THEN CHOOSE i \in 1..(j - 1) :
                 /\ IsHeaderLine(lines[i])
                 /\ \A k \in (i + 1)..(j - 1) : ~IsHeaderLine(lines[k])
        ELSE 0

\* the task lines that stand under some header
TaskLinesInSections(lines) ==
    { j \in DOMAIN lines : IsTaskLine(lines[j]) /\ HeaderAbove(lines, j) # 0 }

\* the ids (line numbers, from 0) of the task lines whose nearest preceding
\* header names the section
LinesOfSection(lines, name) ==
    { j - 1 : j \in { i \in TaskLinesInSections(lines) :
                        HeaderFor(lines[HeaderAbove(lines, i)], name) } }

\* the ids of the tasks of a list and of their subtasks, at every depth
IdsOf(tasks) == { Flatten(tasks, 0)[k].task.id : k \in DOMAIN Flatten(tasks, 0) }

\* the ids of the tasks of the list itself
TopIdsOf(tasks) == { tasks[k].id : k \in DOMAIN tasks }

\* the first task line after its header
FirstUnderHeader(lines, j) ==
    /\ j \in TaskLinesInSections(lines)
    /\ \A k \in (HeaderAbove(lines, j) + 1)..(j - 1) : ~IsTaskLine(lines[k])

\* every check box of the file is whole: "- [" and a character after it
WholeBoxes(lines) ==
    \A j \in DOMAIN lines : IsTaskLine(lines[j]) => Len(Strip(lines[j])) >= 4

\* the tree of each section holds the task lines under the headers of that
\* section, and no others; the first task line after a header is top-level
PlacedBySection(lines, sections) ==
    \A name \in {"today", "ideas", "backlog"} :
        /\ IdsOf(sections[name]) = LinesOfSection(lines, name)
        /\ \A j \in DOMAIN lines :
               (FirstUnderHeader(lines, j) /\ HeaderFor(lines[HeaderAbove(lines, j)], name))
                   => (j - 1) \in TopIdsOf(sections[name])

\* C33: every task line is placed in the section named by the nearest
\* preceding section header and never becomes a subtask of a task of an
\* earlier section (an indented task line directly after a header is
\* attached top-level); task lines before any header produce no task.
C33_PlacedInNearestSection ==
    (parsed.status # "none" /\ WholeBoxes(SplitLines(parsed.text)))
        => /\ parsed.status = "ok"
           /\ PlacedBySection(SplitLines(parsed.text), parsed.sections)

\* whenever parse_markdown returns, the tasks are placed so
C33_PlacedWhenParsed ==
    parsed.status = "ok"
        => PlacedBySection(SplitLines(parsed.text), parsed.sections)

-----------------------------------------------------------------------------
(* GET /api/quick-win *)

\* lines 447-453: effort_minutes of a task; only the units m and h are read
QuickWinMinutes(effort) ==
    IF effort = <<>> THEN 30
    ELSE IF LastChar(effort) = "m" THEN IntOf(ButLast(effort))
    ELSE IF LastChar(effort) = "h" THEN IntOf(ButLast(effort)) * 60
    ELSE 30

\* lines 446 and 455
IsCandidate(task) ==
    /\ ~task.is_completed
    /\ ~task.is_idea
    /\ QuickWinMinutes(task.effort) <= 30

\* lines 444-465: the candidates in the order collect_candidates appends
\* them, section by section, each task before its subtasks
RECURSIVE CandidatesOf(_)
CandidatesOf(entries) ==
    IF entries = <<>> THEN <<>>
    ELSE (IF IsCandidate(entries[1].task)
              THEN <<[id |-> entries[1].task.id,
                      effort_minutes |-> QuickWinMinutes(entries[1].task.effort),
                      xp |-> calculate_xp(entries[1].task)]>>
              ELSE <<>>)
         \o CandidatesOf(Tail(entries))

\* line 468: the sort key (effort_minutes, -xp); list.sort is stable
SortsBefore(a, b) ==
    \/ a.effort_minutes < b.effort_minutes
    \/ a.effort_minutes = b.effort_minutes /\ a.xp > b.xp

\* line 470: candidates[0] after the sort
FirstSorted(cands) ==
    cands[CHOOSE i \in DOMAIN cands :
              /\ \A j \in DOMAIN cands : ~SortsBefore(cands[j], cands[i])
              /\ \A j \in 1..(i - 1) : SortsBefore(cands[i], cands[j])]

\* what the handler returns for the sections parse_markdown gave it
QuickWinOf(cands) ==
    IF cands = <<>> THEN [NoQuickWin EXCEPT !.called = TRUE]
    ELSE [called |-> TRUE, found |-> TRUE, id |-> FirstSorted(cands).id,
          effort_minutes |-> FirstSorted(cands).effort_minutes,
          xp |-> FirstSorted(cands).xp]

\* GET /api/quick-win
get_quick_win ==
    /\ IF ~todo_file.exists
         THEN /\ todo_file' = [exists |-> TRUE, content |-> DefaultText]
              /\ parsed' = [status |-> "ok", sections |-> EmptySections,
                            text |-> <<>>]
         ELSE /\ parsed' = ParsedFrom(parse_markdown_text(todo_file.content),
                                      todo_file.content)
              /\ UNCHANGED todo_file
    /\ quick_win' = IF parsed'.status = "ok"
                       THEN QuickWinOf(CandidatesOf(AllTasks(parsed'.sections)))
                       ELSE [NoQuickWin EXCEPT !.called = TRUE]
    /\ response' = Resp("get_quick_win", "none",
                        IF parsed'.status = "ok" THEN 200 ELSE 500,
                        IF parsed'.status = "ok" THEN "" ELSE parsed'.status, 0,
                        "none")
    /\ request' = NoRequest
    /\ UNCHANGED <<backups, saved, xp, energy_vars>>

\* task lines with efforts in minutes, hours and days, around the half hour
QuickWinContents ==
    { <<"a">>,
      <<"a", " ", "!", "5", "m">>,
      <<"a", " ", "!", "5", "m", " ", "%", "3">>,
      <<"a", " ", "!", "3", "0", "m">>,
      <<"a", " ", "!", "4", "5", "m">>,
      <<"a", " ", "!", "1", "h">>,
      <<"a", " ", "!", "1", "d">>,
      <<"a", " ", "!", "0", "d">>,
      <<"?", " ", "a", " ", "!", "5", "m">> }
QuickWinLines ==
    { TaskText(0, FALSE, c) : c \in QuickWinContents }
    \cup { TaskText(0, TRUE, <<"a", " ", "!", "5", "m">>) }
\* files of one or two tasks under "# today", the second one a subtask or not
QuickWinTexts ==
    { JoinLines(<<Header("today"), l>>) : l \in QuickWinLines }
    \cup { JoinLines(<<Header("today"), l, Spaces(n) \o m>>) :
               l \in QuickWinLines, m \in QuickWinLines, n \in {0, 2} }

NextQuickWin ==
    \/ \E text \in QuickWinTexts : EditFile(text)
    \/ get_quick_win

SpecQuickWin == Init /\ [][NextQuickWin]_vars

\* the minutes an effort token stands for (a day is 8 hours), 30 without one
EffortInMinutes(effort) == IF effort = <<>> THEN 30 ELSE EffortMinutes(effort)

\* the answer q is the quick win of the tasks, their efforts measured by
\* minutes(_): an incomplete, non-idea task of at most 30 minutes, of the
\* smallest effort and among those of the highest XP; none if there is none
IsQuickWinBy(minutes(_), entries, q) ==
    LET Eligible(task) ==
            ~task.is_completed /\ ~task.is_idea /\ minutes(task.effort) <= 30
    IN IF \E k \in DOMAIN entries : Eligible(entries[k].task)
         THEN /\ q.found
              /\ \E k \in DOMAIN entries :
                     /\ entries[k].task.id = q.id
                     /\ Eligible(entries[k].task)
                     /\ \A j \in DOMAIN entries :
                            Eligible(entries[j].task) =>
                                \/ minutes(entries[k].task.effort)
                                       < minutes(entries[j].task.effort)
                                \/ /\ minutes(entries[k].task.effort)
                                          = minutes(entries[j].task.effort)
                                   /\ calculate_xp(entries[k].task)
                                          >= calculate_xp(entries[j].task)
         ELSE ~q.found

\* C40: the quick-win selection returns only an incomplete, non-idea task
\* whose effort is at most 30 minutes, for every effort unit m, h and d, and
\* among such tasks the one of the smallest effort, ties broken by the
\* highest XP; it returns nothing when there is no such task.
C40_QuickWin ==
    (quick_win.called /\ parsed.status = "ok")
        => IsQuickWinBy(EffortInMinutes, AllTasks(parsed.sections), quick_win)

\* the selection is as described with the efforts as the handler reads them
C40_QuickWinAsRead ==
    (quick_win.called /\ parsed.status = "ok")
        => IsQuickWinBy(QuickWinMinutes, AllTasks(parsed.sections), quick_win)


=============================================================================
